---- MODULE Spec2Model ----
(***************************************************************************)
(* Coffee machine backend: the resource-accounting service                 *)
(* (app/services.py), its containers (app/models.py), the JSON store       *)
(* (app/storage.py) and the two ways a request obtains its service object  *)
(* (app/main.py and app/dependencies.py), and the websocket hub that       *)
(* broadcasts the service's events (app/websocket_manager.py and           *)
(* app/api/v1/endpoints/websocket.py).                                     *)
(*                                                                         *)
(* Amounts are floats in the source; every quantity used here is a whole   *)
(* number, for which float arithmetic is exact.                            *)
(***************************************************************************)
EXTENDS Integers, Sequences, FiniteSets, TLC

(* ------------------------------ bounds --------------------------------- *)
\* number of callers that may have a request in flight at the same time
NClients == 2
\* number of calls a direct caller makes in one behaviour
MaxCalls == 3
\* number of HTTP requests served in one behaviour
MaxRequests == 2
\* number of calls made on the store alone in one behaviour
MaxStoreCalls == 3
\* number of calls made on a container alone in one behaviour
MaxContainerCalls == 2
\* number of websockets that connect in one behaviour
NSockets == 2
\* number of broadcast tasks created in one behaviour
MaxBroadcasts == 2
\* number of requests served while the hub runs in one behaviour
MaxHubRequests == 1
\* number of calls made on the list of connections alone in one behaviour
MaxRegistryCalls == 4

Clients == 1..NClients

Sockets == 1..NSockets

Broadcasts == 1..MaxBroadcasts

(* ------------------------ configuration (config.py) -------------------- *)
water_capacity == 2000
coffee_capacity == 500

(* ---------------------------- models.py -------------------------------- *)
CoffeeType == {"espresso", "double_espresso", "ristretto", "americano"}

\* variant: the ristretto entry repeats the espresso quantities
RECIPES_ristretto_as_espresso ==
    [t \in CoffeeType |->
        CASE t = "espresso"        -> [coffee |-> 8,  water |-> 24]
          [] t = "double_espresso" -> [coffee |-> 16, water |-> 48]
          [] t = "ristretto"       -> [coffee |-> 8,  water |-> 24]
          [] t = "americano"       -> [coffee |-> 16, water |-> 148]]

RECIPES ==
    [t \in CoffeeType |->
        CASE t = "espresso"        -> [coffee |-> 8,  water |-> 24]
          [] t = "double_espresso" -> [coffee |-> 16, water |-> 48]
          [] t = "ristretto"       -> [coffee |-> 8,  water |-> 16]
          [] t = "americano"       -> [coffee |-> 16, water |-> 148]]

\* WaterContainer / CoffeeContainer: the two classes have the same body
Container(cap, cur) == [capacity |-> cap, current_amount |-> cur]

\* variant: the whole content cannot be dispensed
can_dispense_strict(container, amount) == container.current_amount > amount

can_dispense(container, amount) == container.current_amount >= amount

\* variant: the amount to add is left out of the capacity check
can_fill_ignores_amount(container, amount) ==
    container.current_amount <= container.capacity

\* variant: a fill that would reach the capacity exactly is refused
can_fill_below_capacity(container, amount) ==
    container.current_amount + amount < container.capacity

can_fill(container, amount) ==
    container.current_amount + amount <= container.capacity

\* raises ValueError (level unchanged) when the amount cannot be dispensed
dispense(container, amount) ==
    IF can_dispense(container, amount)
    THEN [container EXCEPT !.current_amount = @ - amount]
    ELSE container

\* raises ValueError (level unchanged) when the amount cannot be added
fill(container, amount) ==
    IF can_fill(container, amount)
    THEN [container EXCEPT !.current_amount = @ + amount]
    ELSE container

\* field validator of both container classes, run at construction
validate_current_amount(capacity, v) == ~(v < 0) /\ ~(v > capacity)

MachineState(w, c, total, updated) ==
    [water_container |-> w, coffee_container |-> c,
     total_coffees_made |-> total, last_updated |-> updated]

\* variant: Field(ge=0) and a validator that lets zero through
FillRequestValid_accepts_zero(amount) ==
    amount >= 0 /\ ~(amount < 0) /\ ~(amount > 10000)

\* FillRequest: Field(gt=0) and the two ValidationHelpers checks
FillRequestValid(amount) == amount > 0 /\ ~(amount <= 0) /\ ~(amount > 10000)

(* ------------------------------ time ----------------------------------- *)
\* a naive datetime: whole seconds and microseconds
datetime(s, us) == [sec |-> s, usec |-> us]

\* variant: the fraction of the second is never written
isoformat_whole_seconds(d) == <<d.sec>>

\* datetime.isoformat(): the fraction is left out when it is zero
isoformat(d) == IF d.usec = 0 THEN <<d.sec>> ELSE <<d.sec, d.usec>>

\* the strings datetime.fromisoformat() accepts; for the others it raises
\* ValueError
IsIsoFormat(s) == Len(s) \in {1, 2}

\* datetime.fromisoformat()
fromisoformat(s) ==
    IF Len(s) = 1 THEN datetime(s[1], 0) ELSE datetime(s[1], s[2])

(* ------------------------------ json ----------------------------------- *)
\* the values json.load returns, by JSON type; NotJSON is a text that
\* json.load cannot decode (JSONDecodeError)
JNumber(n) == [number |-> n]
JString(s) == [string |-> s]
JObject(members) == [object |-> members]
JArray == [array |-> << >>]
NotJSON == [undecodable |-> TRUE]

IsNumber(v) == DOMAIN v = {"number"}
IsString(v) == DOMAIN v = {"string"}
IsObject(v) == DOMAIN v = {"object"}

\* dict.get(key, default) on the members of an object
Get(members, key, default) ==
    IF key \in DOMAIN members THEN members[key] ELSE default

(* ---------------------------- storage.py ------------------------------- *)
\* the file at file_path: << >> when it does not exist, else <<content>>
Absent == << >>

\* the dict json.dump writes in save_state
Serialize(st) ==
    JObject(
        [water_container |->
             JObject([capacity |-> JNumber(st.water_container.capacity),
                      current_amount |->
                          JNumber(st.water_container.current_amount)]),
         coffee_container |->
             JObject([capacity |-> JNumber(st.coffee_container.capacity),
                      current_amount |->
                          JNumber(st.coffee_container.current_amount)]),
         total_coffees_made |-> JNumber(st.total_coffees_made),
         last_updated |-> JString(isoformat(st.last_updated))])

create_default_state(now) ==
    MachineState(Container(water_capacity, 0), Container(coffee_capacity, 0),
                 0, now)

\* WaterContainer(**members) / CoffeeContainer(**members): a field left out
\* takes its default, which is not validated; a field that is not a number
\* and a current_amount refused by the validator raise ValidationError, a
\* ValueError
ContainerFrom(members, default_capacity) ==
    LET capacity == Get(members, "capacity", JNumber(default_capacity))
        current_amount == Get(members, "current_amount", JNumber(0))
    IN  IF ~IsNumber(capacity) \/ ~IsNumber(current_amount)
        THEN [raised |-> "ValueError", value |-> Container(0, 0)]
        ELSE IF /\ "current_amount" \in DOMAIN members
                /\ ~validate_current_amount(capacity.number,
                                            current_amount.number)
        THEN [raised |-> "ValueError", value |-> Container(0, 0)]
        ELSE [raised |-> "",
              value |-> Container(capacity.number, current_amount.number)]

\* what a call of load_state ends with: the state it returns, or the
\* exception that leaves it
Returned(st) == [raised |-> "", state |-> st]

Raised(exception, now) ==
    [raised |-> exception, state |-> create_default_state(now)]

\* load_state: JSONDecodeError, KeyError and ValueError are caught and
\* answered with the default state; data.get on a value that is not a dict
\* raises AttributeError and ** on a value that is not a mapping raises
\* TypeError, which are not caught
load_state(f, now) ==
    IF f = Absent
    THEN Returned(create_default_state(now))
    ELSE LET data == f[1]
         IN  IF data = NotJSON
             THEN Returned(create_default_state(now))
             ELSE IF ~IsObject(data)
             THEN Raised("AttributeError", now)
             ELSE
             LET members == data.object
                 water == Get(members, "water_container", JObject(<< >>))
                 coffee == Get(members, "coffee_container", JObject(<< >>))
                 total == Get(members, "total_coffees_made", JNumber(0))
                 last_updated_str ==
                     Get(members, "last_updated", JNumber(0))
             IN  IF ~IsObject(water)
                 THEN Raised("TypeError", now)
                 ELSE IF ContainerFrom(water.object,
                                       water_capacity).raised # ""
                 THEN Returned(create_default_state(now))
                 ELSE IF ~IsObject(coffee)
                 THEN Raised("TypeError", now)
                 ELSE IF ContainerFrom(coffee.object,
                                       coffee_capacity).raised # ""
                 THEN Returned(create_default_state(now))
                 ELSE IF /\ IsString(last_updated_str)
                         /\ ~IsIsoFormat(last_updated_str.string)
                 THEN Returned(create_default_state(now))
                 ELSE IF ~IsNumber(total)
                 THEN Returned(create_default_state(now))
                 ELSE Returned(MachineState(
                          ContainerFrom(water.object, water_capacity).value,
                          ContainerFrom(coffee.object,
                                        coffee_capacity).value,
                          total.number,
                          IF IsString(last_updated_str)
                          THEN fromisoformat(last_updated_str.string)
                          ELSE now))

\* variant: save_state returns without having written the record
save_state_writes_nothing(f, st, io_ok) == f

\* save_state: the temp file is written and renamed over file_path; when
\* either step raises, the temp file is removed, file_path keeps its content
\* and IOError is raised
save_state(f, st, io_ok) == IF io_ok THEN <<Serialize(st)>> ELSE f

(* ------------------------- exceptions.py ------------------------------- *)
Result(kind, what, x, y) == [kind |-> kind, what |-> what, x |-> x, y |-> y]

NoResult == Result("none", "", 0, 0)
Success == Result("ok", "", 0, 0)

InsufficientResourcesException(resource_type, needed, available) ==
    Result("InsufficientResourcesException", resource_type, needed, available)

ContainerOverflowException(container_type, capacity, attempted_amount) ==
    Result("ContainerOverflowException", container_type, capacity,
           attempted_amount)

InvalidAmountException(amount) ==
    Result("InvalidAmountException", "", amount, 0)

\* raised by save_state; not a CoffeeMachineException
IOError == Result("IOError", "", 0, 0)

\* FastAPI's answer (422) to a body that fails FillRequest
RequestValidationError == Result("RequestValidationError", "", 0, 0)

\* the subclasses of CoffeeMachineException
CoffeeMachineException ==
    {"InsufficientResourcesException", "ContainerOverflowException",
     "InvalidAmountException"}

\* the status_code property of the exception classes
status_code(exc) ==
    CASE exc.kind = "InsufficientResourcesException" -> 409
      [] exc.kind = "ContainerOverflowException"     -> 409
      [] exc.kind = "InvalidAmountException"         -> 400
      [] OTHER                                       -> 500

\* to_dict of the exception classes: error_type is the class name, details
\* the data the exception was built with (the reason of InvalidAmount is a
\* fixed text)
to_dict(exc) ==
    [success |-> FALSE, error_type |-> exc.kind,
     details |->
        CASE exc.kind = "InsufficientResourcesException" ->
                 [resource_type |-> exc.what, needed |-> exc.x,
                  available |-> exc.y]
          [] exc.kind = "ContainerOverflowException" ->
                 [container_type |-> exc.what, capacity |-> exc.x,
                  attempted_amount |-> exc.y]
          [] exc.kind = "InvalidAmountException" ->
                 [amount |-> exc.x]
          [] OTHER -> << >>]

\* exception_handler, registered in main.py for CoffeeMachineException
exception_handler(exc) ==
    [status_code |-> status_code(exc), content |-> to_dict(exc)]

\* the answer of the server when no handler is registered for the
\* exception that left the endpoint
InternalServerError ==
    [status_code |-> 500, content |-> "Internal Server Error"]

\* what the caller of a service method gets over HTTP
Response(result) ==
    IF result.kind \in CoffeeMachineException
    THEN exception_handler(result)
    ELSE IF result.kind = "ok"
    THEN [status_code |-> 200, content |-> [success |-> TRUE]]
    ELSE IF result.kind = "RequestValidationError"
    THEN [status_code |-> 422, content |-> [detail |-> "amount"]]
    ELSE InternalServerError

(* ---------------------------- services.py ------------------------------ *)
\* 100 * current / capacity rounded to two decimals, in hundredths of a
\* percent; 0 when the capacity is 0
Percentage(container) ==
    IF container.capacity > 0
    THEN (2 * 10000 * container.current_amount + container.capacity)
             \div (2 * container.capacity)
    ELSE 0

get_status(st) ==
    [water_level        |-> st.water_container.current_amount,
     water_capacity     |-> st.water_container.capacity,
     water_percentage   |-> Percentage(st.water_container),
     coffee_level       |-> st.coffee_container.current_amount,
     coffee_capacity    |-> st.coffee_container.capacity,
     coffee_percentage  |-> Percentage(st.coffee_container),
     total_coffees_made |-> st.total_coffees_made,
     last_updated       |-> isoformat(st.last_updated)]

\* what a service method did besides changing self.state, in call order
SaveCall(st, io_ok) == [call |-> "save_state", arg |-> st, raised |-> ~io_ok]

CreateTask(event) == [call |-> "create_task", event |-> event]

\* the messages built by ConnectionManager.broadcast_coffee_made and
\* ConnectionManager.broadcast_status_update
coffee_made(coffee_type, resources_used) ==
    [type |-> "coffee_made", coffee_type |-> coffee_type,
     resources_used |-> resources_used]

status_update(data) == [type |-> "status_update", data |-> data]

\* the "data" of a result that has none
NoData == << >>

\* what a call of a service method leaves behind: self.state, the file, the
\* result (return value or exception), the calls it made and, for
\* get_status, the "data" of the dict it returned
Outcome(st, f, result, calls) ==
    [state |-> st, file |-> f, result |-> result, calls |-> calls,
     data |-> NoData]

\* variant: the water is dispensed before the coffee is checked
make_coffee_dispenses_early(st, f, coffee_type, now, has_loop, io_ok) ==
    LET recipe == RECIPES[coffee_type]
        water_needed == recipe.water
        coffee_needed == recipe.coffee
    IN  IF ~can_dispense(st.water_container, water_needed)
        THEN Outcome(st, f,
                     InsufficientResourcesException(
                         "water", water_needed,
                         st.water_container.current_amount),
                     << >>)
        ELSE IF ~can_dispense(st.coffee_container, coffee_needed)
        THEN Outcome([st EXCEPT
                         !.water_container = dispense(@, water_needed)],
                     f,
                     InsufficientResourcesException(
                         "coffee", coffee_needed,
                         st.coffee_container.current_amount),
                     << >>)
        ELSE LET st1 == [st EXCEPT
                            !.water_container = dispense(@, water_needed),
                            !.coffee_container = dispense(@, coffee_needed),
                            !.total_coffees_made = @ + 1,
                            !.last_updated = now]
             IN  Outcome(st1, save_state(f, st1, io_ok),
                         IF io_ok THEN Success ELSE IOError,
                         (IF has_loop
                          THEN << CreateTask(coffee_made(
                                     coffee_type,
                                     [coffee |-> coffee_needed,
                                      water |-> water_needed])),
                                  CreateTask(status_update(get_status(st1))) >>
                          ELSE << >>) \o << SaveCall(st1, io_ok) >>)

\* variant: the coffee is checked before the water
make_coffee_checks_coffee_first(st, f, coffee_type, now, has_loop, io_ok) ==
    LET recipe == RECIPES[coffee_type]
        water_needed == recipe.water
        coffee_needed == recipe.coffee
    IN  IF ~can_dispense(st.coffee_container, coffee_needed)
        THEN Outcome(st, f,
                     InsufficientResourcesException(
                         "coffee", coffee_needed,
                         st.coffee_container.current_amount),
                     << >>)
        ELSE IF ~can_dispense(st.water_container, water_needed)
        THEN Outcome(st, f,
                     InsufficientResourcesException(
                         "water", water_needed,
                         st.water_container.current_amount),
                     << >>)
        ELSE LET st1 == [st EXCEPT
                            !.water_container = dispense(@, water_needed),
                            !.coffee_container = dispense(@, coffee_needed),
                            !.total_coffees_made = @ + 1,
                            !.last_updated = now]
             IN  Outcome(st1, save_state(f, st1, io_ok),
                         IF io_ok THEN Success ELSE IOError,
                         (IF has_loop
                          THEN << CreateTask(coffee_made(
                                     coffee_type,
                                     [coffee |-> coffee_needed,
                                      water |-> water_needed])),
                                  CreateTask(status_update(get_status(st1))) >>
                          ELSE << >>) \o << SaveCall(st1, io_ok) >>)

\* variant: the state is put back as it was when save_state raises
make_coffee_rolls_back(st, f, coffee_type, now, has_loop, io_ok) ==
    LET recipe == RECIPES[coffee_type]
        water_needed == recipe.water
        coffee_needed == recipe.coffee
    IN  IF ~can_dispense(st.water_container, water_needed)
        THEN Outcome(st, f,
                     InsufficientResourcesException(
                         "water", water_needed,
                         st.water_container.current_amount),
                     << >>)
        ELSE IF ~can_dispense(st.coffee_container, coffee_needed)
        THEN Outcome(st, f,
                     InsufficientResourcesException(
                         "coffee", coffee_needed,
                         st.coffee_container.current_amount),
                     << >>)
        ELSE LET st1 == [st EXCEPT
                            !.water_container = dispense(@, water_needed),
                            !.coffee_container = dispense(@, coffee_needed),
                            !.total_coffees_made = @ + 1,
                            !.last_updated = now]
                 tasks == IF has_loop
                          THEN << CreateTask(coffee_made(
                                     coffee_type,
                                     [coffee |-> coffee_needed,
                                      water |-> water_needed])),
                                  CreateTask(status_update(get_status(st1))) >>
                          ELSE << >>
             IN  Outcome(IF io_ok THEN st1 ELSE st,
                         save_state(f, st1, io_ok),
                         IF io_ok THEN Success ELSE IOError,
                         tasks \o << SaveCall(st1, io_ok) >>)

\* variant: the RuntimeError of asyncio.create_task is not caught
make_coffee_needs_loop(st, f, coffee_type, now, has_loop, io_ok) ==
    LET recipe == RECIPES[coffee_type]
        water_needed == recipe.water
        coffee_needed == recipe.coffee
    IN  IF ~can_dispense(st.water_container, water_needed)
        THEN Outcome(st, f,
                     InsufficientResourcesException(
                         "water", water_needed,
                         st.water_container.current_amount),
                     << >>)
        ELSE IF ~can_dispense(st.coffee_container, coffee_needed)
        THEN Outcome(st, f,
                     InsufficientResourcesException(
                         "coffee", coffee_needed,
                         st.coffee_container.current_amount),
                     << >>)
        ELSE LET st1 == [st EXCEPT
                            !.water_container = dispense(@, water_needed),
                            !.coffee_container = dispense(@, coffee_needed),
                            !.total_coffees_made = @ + 1,
                            !.last_updated = now]
             IN  IF ~has_loop
                 THEN Outcome(st1, f, Result("RuntimeError", "", 0, 0),
                              << >>)
                 ELSE Outcome(st1, save_state(f, st1, io_ok),
                              IF io_ok THEN Success ELSE IOError,
                              << CreateTask(coffee_made(
                                    coffee_type,
                                    [coffee |-> coffee_needed,
                                     water |-> water_needed])),
                                 CreateTask(status_update(get_status(st1))),
                                 SaveCall(st1, io_ok) >>)

\* asyncio.create_task raises RuntimeError when no event loop is running;
\* the service catches it and goes on
make_coffee(st, f, coffee_type, now, has_loop, io_ok) ==
    LET recipe == RECIPES[coffee_type]
        water_needed == recipe.water
        coffee_needed == recipe.coffee
    IN  IF ~can_dispense(st.water_container, water_needed)
        THEN Outcome(st, f,
                     InsufficientResourcesException(
                         "water", water_needed,
                         st.water_container.current_amount),
                     << >>)
        ELSE IF ~can_dispense(st.coffee_container, coffee_needed)
        THEN Outcome(st, f,
                     InsufficientResourcesException(
                         "coffee", coffee_needed,
                         st.coffee_container.current_amount),
                     << >>)
        ELSE LET st1 == [st EXCEPT
                            !.water_container = dispense(@, water_needed),
                            !.coffee_container = dispense(@, coffee_needed),
                            !.total_coffees_made = @ + 1,
                            !.last_updated = now]
                 tasks == IF has_loop
                          THEN << CreateTask(coffee_made(
                                     coffee_type,
                                     [coffee |-> coffee_needed,
                                      water |-> water_needed])),
                                  CreateTask(status_update(get_status(st1))) >>
                          ELSE << >>
             IN  Outcome(st1, save_state(f, st1, io_ok),
                         IF io_ok THEN Success ELSE IOError,
                         tasks \o << SaveCall(st1, io_ok) >>)

\* variant: only negative amounts are refused
fill_water_accepts_zero(st, f, amount, now, has_loop, io_ok) ==
    IF amount < 0
    THEN Outcome(st, f, InvalidAmountException(amount), << >>)
    ELSE IF ~can_fill(st.water_container, amount)
    THEN Outcome(st, f,
                 ContainerOverflowException(
                     "water", st.water_container.capacity,
                     st.water_container.current_amount + amount),
                 << >>)
    ELSE LET st1 == [st EXCEPT !.water_container = fill(@, amount),
                               !.last_updated = now]
         IN  IF ~io_ok
             THEN Outcome(st1, save_state(f, st1, io_ok), IOError,
                          << SaveCall(st1, io_ok) >>)
             ELSE Outcome(st1, save_state(f, st1, io_ok), Success,
                          << SaveCall(st1, io_ok) >> \o
                          (IF has_loop
                           THEN << CreateTask(status_update(get_status(st1))) >>
                           ELSE << >>))

fill_water(st, f, amount, now, has_loop, io_ok) ==
    IF amount <= 0
    THEN Outcome(st, f, InvalidAmountException(amount), << >>)
    ELSE IF ~can_fill(st.water_container, amount)
    THEN Outcome(st, f,
                 ContainerOverflowException(
                     "water", st.water_container.capacity,
                     st.water_container.current_amount + amount),
                 << >>)
    ELSE LET st1 == [st EXCEPT !.water_container = fill(@, amount),
                               !.last_updated = now]
         IN  IF ~io_ok
             THEN Outcome(st1, save_state(f, st1, io_ok), IOError,
                          << SaveCall(st1, io_ok) >>)
             ELSE Outcome(st1, save_state(f, st1, io_ok), Success,
                          << SaveCall(st1, io_ok) >> \o
                          (IF has_loop
                           THEN << CreateTask(status_update(get_status(st1))) >>
                           ELSE << >>))

\* variant: the overflow is reported with the amount asked for instead of
\* the total it would have made
fill_coffee_reports_amount(st, f, amount, now, has_loop, io_ok) ==
    IF amount <= 0
    THEN Outcome(st, f, InvalidAmountException(amount), << >>)
    ELSE IF ~can_fill(st.coffee_container, amount)
    THEN Outcome(st, f,
                 ContainerOverflowException(
                     "coffee", st.coffee_container.capacity, amount),
                 << >>)
    ELSE LET st1 == [st EXCEPT !.coffee_container = fill(@, amount),
                               !.last_updated = now]
         IN  IF ~io_ok
             THEN Outcome(st1, save_state(f, st1, io_ok), IOError,
                          << SaveCall(st1, io_ok) >>)
             ELSE Outcome(st1, save_state(f, st1, io_ok), Success,
                          << SaveCall(st1, io_ok) >> \o
                          (IF has_loop
                           THEN << CreateTask(status_update(get_status(st1))) >>
                           ELSE << >>))

fill_coffee(st, f, amount, now, has_loop, io_ok) ==
    IF amount <= 0
    THEN Outcome(st, f, InvalidAmountException(amount), << >>)
    ELSE IF ~can_fill(st.coffee_container, amount)
    THEN Outcome(st, f,
                 ContainerOverflowException(
                     "coffee", st.coffee_container.capacity,
                     st.coffee_container.current_amount + amount),
                 << >>)
    ELSE LET st1 == [st EXCEPT !.coffee_container = fill(@, amount),
                               !.last_updated = now]
         IN  IF ~io_ok
             THEN Outcome(st1, save_state(f, st1, io_ok), IOError,
                          << SaveCall(st1, io_ok) >>)
             ELSE Outcome(st1, save_state(f, st1, io_ok), Success,
                          << SaveCall(st1, io_ok) >> \o
                          (IF has_loop
                           THEN << CreateTask(status_update(get_status(st1))) >>
                           ELSE << >>))

\* variant: the counter of the old state is carried over
reset_keeps_counter(st, f, now, io_ok) ==
    LET st1 == MachineState(Container(water_capacity, 0),
                            Container(coffee_capacity, 0),
                            st.total_coffees_made, now)
    IN  Outcome(st1, save_state(f, st1, io_ok),
                IF io_ok THEN Success ELSE IOError,
                << SaveCall(st1, io_ok) >>)

\* variant: the containers are emptied in place, keeping their capacities
reset_keeps_capacities(st, f, now, io_ok) ==
    LET st1 == MachineState(Container(st.water_container.capacity, 0),
                            Container(st.coffee_container.capacity, 0),
                            0, now)
    IN  Outcome(st1, save_state(f, st1, io_ok),
                IF io_ok THEN Success ELSE IOError,
                << SaveCall(st1, io_ok) >>)

\* variant: the new state is not written to the store
reset_without_save(st, f, now, io_ok) ==
    LET st1 == MachineState(Container(water_capacity, 0),
                            Container(coffee_capacity, 0), 0, now)
    IN  Outcome(st1, f, Success, << >>)

\* variant: the new status is handed to the hub as the fills do
reset_notifies(st, f, now, io_ok) ==
    LET st1 == MachineState(Container(water_capacity, 0),
                            Container(coffee_capacity, 0), 0, now)
    IN  Outcome(st1, save_state(f, st1, io_ok),
                IF io_ok THEN Success ELSE IOError,
                << SaveCall(st1, io_ok) >> \o
                (IF io_ok
                 THEN << CreateTask(status_update(get_status(st1))) >>
                 ELSE << >>))

reset(st, f, now, io_ok) ==
    LET st1 == MachineState(Container(water_capacity, 0),
                            Container(coffee_capacity, 0), 0, now)
    IN  Outcome(st1, save_state(f, st1, io_ok),
                IF io_ok THEN Success ELSE IOError,
                << SaveCall(st1, io_ok) >>)

(* ------------------------- inputs of the model ------------------------- *)
\* fill amounts tried: negative, zero, a small one and one near capacity
Amounts == {-5, 0, 30, 1800}

\* the inputs tried on each route: everything for a direct caller, a
\* smaller choice over HTTP (water fills only, which run the same
\* FillRequest validation and the same Container.fill as coffee fills:
\* an amount the request validation refuses and an amount that fits some
\* of the initial states and overflows others)
InputTypes(route) == IF route = "direct" THEN CoffeeType ELSE {"espresso"}

InputAmounts(route, op) ==
    IF route = "direct" THEN Amounts
    ELSE IF op = "fill_water" THEN {0, 1800} ELSE {}

\* how a call reaches the service: "direct" is a caller that holds the
\* service object and calls its methods one after the other (no event loop,
\* no request validation); "main" is an endpoint of app/main.py; "v1" is an
\* endpoint of app/api/v1/endpoints. The endpoints are served by the event
\* loop of the web server
Routes == {"direct", "main", "v1"}

Ops == {"make_coffee", "fill_water", "fill_coffee", "reset", "get_status"}

\* records a previous run of the program may have left in the file
SavedRecords ==
    { Serialize(MachineState(Container(2000, 30), Container(500, 500), 7,
                             datetime(0, 0))),
      Serialize(MachineState(Container(2000, 200), Container(500, 8), 2,
                             datetime(0, 250000))),
      Serialize(MachineState(Container(1000, 1000), Container(250, 100), 1,
                             datetime(0, 0))) }

\* the record tried under the web server: water for one espresso only
ServerRecords ==
    { Serialize(MachineState(Container(2000, 30), Container(500, 500), 7,
                             datetime(0, 0))) }

\* the files the program may start with: every record for a direct caller,
\* a smaller choice under the web server
InitFiles(route) ==
    {Absent} \cup { <<d>> : d \in IF route = "direct" THEN SavedRecords
                                  ELSE ServerRecords }

(* ------------------------------- state --------------------------------- *)
VARIABLES
    state,  \* state[0]: self.state of the service made by lifespan
            \* (main._service_instance); state[c]: self.state of the service
            \* dependencies.get_service made for client c's current request
    file,   \* content of the JSON file
    req,    \* per client: its current request and what became of it
            \* (pc: idle, resolve, ready, done; sid: the service it got;
            \* at / seq: the value of clock when it was issued / after it
            \* was served; pre / post: self.state before and after the
            \* service method; calls: what the method called; result)
    clock,  \* number of service calls so far; datetime.now() in seconds
    app,    \* the program that runs: "main" is the FastAPI application of
            \* app/main.py, "v1" an application that serves api_router,
            \* "direct" a caller of the service without a web server
    temp,   \* content of the temporary file f"{file_path}.tmp"
    saving, \* the save_state call in progress (pc: idle, writing, written;
            \* st: the state it saves; before: the file when it began)
    active_connections,
            \* manager.active_connections, a list of websockets
    sockets,
            \* per websocket: its websocket_endpoint coroutine (pc: new,
            \* snapshot, listening, closed), whether its client is still
            \* there (open), an exception that ended the coroutine
            \* (error), whether manager.connection_metadata has an entry
            \* for it (metadata)
    tasks   \* per broadcast task: pc (none, created, sending, done), the
            \* message, the list iterator's index i, the connection being
            \* sent to (target), the local list disconnected, an exception
            \* that ended the task (error); for the properties, while the
            \* task runs: the connections it sent to (sent), those that
            \* were registered when it started, still are and were not
            \* sent to yet (pending), whether nobody else removed a
            \* connection since it started (intact)

vars ==
    <<state, file, req, clock, app, temp, saving, active_connections,
      sockets, tasks>>

\* asyncio.create_task finds a running event loop only in the web server
loop_running == app # "direct"

\* dependencies._service_instance: set_service_instance has no caller
dependencies_service_instance == "None"

Blank == MachineState(Container(0, 0), Container(0, 0), 0, datetime(0, 0))

Idle ==
    [pc |-> "idle", route |-> "direct", op |-> "reset", coffee_type |-> "",
     amount |-> 0, sid |-> 0, at |-> 0, seq |-> 0, pre |-> Blank,
     post |-> Blank, calls |-> << >>, result |-> NoResult, data |-> NoData]

NotSaving == [pc |-> "idle", st |-> Blank, before |-> Absent]

\* a websocket nobody has connected yet
NewSocket == [pc |-> "new", open |-> TRUE, error |-> "", metadata |-> FALSE]

\* a broadcast task nobody has created yet
NoTask ==
    [pc |-> "none", message |-> NoData, i |-> 0, target |-> 0,
     disconnected |-> << >>, error |-> "", sent |-> << >>, pending |-> {},
     intact |-> TRUE]

\* manager = ConnectionManager(): no connection; no task exists
NoHub ==
    /\ active_connections = << >>
    /\ sockets = [h \in Sockets |-> NewSocket]
    /\ tasks = [b \in Broadcasts |-> NoTask]

Pending == {c \in Clients : req[c].pc \in {"resolve", "ready"}}

Init ==
    /\ app \in Routes
    /\ file \in InitFiles(app)
    /\ clock = 0
    /\ state = [i \in 0..NClients |->
                   IF i = 0 THEN load_state(file, datetime(0, 0)).state
                   ELSE Blank]
    /\ req = [c \in Clients |-> Idle]
    /\ temp = Absent
    /\ saving = NotSaving
    /\ NoHub

(* ------------------------------ actions -------------------------------- *)
\* a caller issues a call; over HTTP the framework first solves the
\* endpoint's dependencies, a direct caller runs the method at once
request(c, route, op, coffee_type, amount) ==
    /\ req[c].pc \in {"idle", "done"}
    /\ clock + Cardinality(Pending) <
           (IF loop_running THEN MaxRequests ELSE MaxCalls)
    /\ route = app
    /\ IF loop_running
       THEN \A d \in Clients : d < c => d \in Pending
       ELSE c = 1
    /\ req' = [req EXCEPT ![c] =
                  [Idle EXCEPT !.pc = IF route = "direct"
                                      THEN "ready" ELSE "resolve",
                               !.route = route, !.op = op,
                               !.coffee_type = coffee_type,
                               !.amount = amount, !.at = clock]]
    /\ state' = [state EXCEPT ![c] = Blank]
    /\ UNCHANGED <<file, clock, app, temp, saving,
                   active_connections, sockets, tasks>>

\* get_service of app/main.py returns the service made at startup;
\* get_service of app/dependencies.py makes a new CoffeeMachineService,
\* whose __init__ loads the file, because its _service_instance is None
get_service(c) ==
    IF req[c].route = "v1" /\ dependencies_service_instance = "None"
    THEN [sid |-> c,
          state |-> load_state(file, datetime(clock, 0)).state]
    ELSE [sid |-> 0, state |-> state[0]]

\* FastAPI validates the body (FillRequest) and calls get_service in its
\* thread pool before the endpoint function runs; other requests may be
\* served in between
solve_dependencies(c) ==
    /\ req[c].pc = "resolve"
    /\ LET svc == get_service(c)
       IN  IF /\ req[c].op \in {"fill_water", "fill_coffee"}
              /\ ~FillRequestValid(req[c].amount)
           THEN /\ req' = [req EXCEPT ![c].pc = "done",
                                      ![c].result = RequestValidationError]
                /\ UNCHANGED state
           ELSE /\ req' = [req EXCEPT ![c].pc = "ready", ![c].sid = svc.sid]
                /\ state' = [state EXCEPT ![svc.sid] = svc.state]
    /\ UNCHANGED <<file, clock, app, temp, saving,
                   active_connections, sockets, tasks>>

\* the endpoint function and the service method it calls have no await:
\* they run to the end without another coroutine in between
Complete(c, out) ==
    /\ state' = [state EXCEPT ![req[c].sid] = out.state]
    /\ file' = out.file
    /\ clock' = clock + 1
    /\ UNCHANGED <<app, temp, saving,
                   active_connections, sockets, tasks>>
    /\ req' = [req EXCEPT ![c].pc = "done",
                          ![c].seq = clock + 1,
                          ![c].pre = state[req[c].sid],
                          ![c].post = out.state,
                          ![c].calls = out.calls,
                          ![c].result = out.result,
                          ![c].data = out.data]

Now == datetime(clock + 1, 0)

HandleMakeCoffee(c, io_ok) ==
    /\ req[c].pc = "ready"
    /\ req[c].op = "make_coffee"
    /\ Complete(c, make_coffee(state[req[c].sid], file, req[c].coffee_type,
                               Now, loop_running, io_ok))

HandleFillWater(c, io_ok) ==
    /\ req[c].pc = "ready"
    /\ req[c].op = "fill_water"
    /\ Complete(c, fill_water(state[req[c].sid], file, req[c].amount,
                              Now, loop_running, io_ok))

HandleFillCoffee(c, io_ok) ==
    /\ req[c].pc = "ready"
    /\ req[c].op = "fill_coffee"
    /\ Complete(c, fill_coffee(state[req[c].sid], file, req[c].amount,
                               Now, loop_running, io_ok))

HandleReset(c, io_ok) ==
    /\ req[c].pc = "ready"
    /\ req[c].op = "reset"
    /\ Complete(c, reset(state[req[c].sid], file, Now, io_ok))

\* variant: reading the status stamps last_updated
HandleGetStatus_stamps_state(c) ==
    /\ req[c].pc = "ready"
    /\ req[c].op = "get_status"
    /\ LET st == [state[req[c].sid] EXCEPT !.last_updated = Now]
       IN  Complete(c, [Outcome(st, file, Success, << >>)
                           EXCEPT !.data = get_status(st)])

\* the status endpoints return service.get_status()
HandleGetStatus(c) ==
    /\ req[c].pc = "ready"
    /\ req[c].op = "get_status"
    /\ LET st == state[req[c].sid]
       IN  Complete(c, [Outcome(st, file, Success, << >>)
                           EXCEPT !.data = get_status(st)])

Next ==
    \/ \E c \in Clients, route \in Routes : \E t \in InputTypes(route) :
          request(c, route, "make_coffee", t, 0)
    \/ \E c \in Clients, route \in Routes :
          \E a \in InputAmounts(route, "fill_water") :
              request(c, route, "fill_water", "", a)
    \/ \E c \in Clients, route \in Routes :
          \E a \in InputAmounts(route, "fill_coffee") :
              request(c, route, "fill_coffee", "", a)
    \/ \E c \in Clients, route \in Routes :
          request(c, route, "reset", "", 0)
    \/ \E c \in Clients, route \in Routes :
          request(c, route, "get_status", "", 0)
    \/ \E c \in Clients : solve_dependencies(c)
    \/ \E c \in Clients, io_ok \in BOOLEAN : HandleMakeCoffee(c, io_ok)
    \/ \E c \in Clients, io_ok \in BOOLEAN : HandleFillWater(c, io_ok)
    \/ \E c \in Clients, io_ok \in BOOLEAN : HandleFillCoffee(c, io_ok)
    \/ \E c \in Clients, io_ok \in BOOLEAN : HandleReset(c, io_ok)
    \/ \E c \in Clients : HandleGetStatus(c)

Spec == Init /\ [][Next]_vars

(* ======================================================================= *)
(*                    the store on its own (app/storage.py)                *)
(* ======================================================================= *)
\* states handed to save_state: valid ones (0 <= current_amount <=
\* capacity), with and without a fraction of a second in last_updated
StoreStates ==
    { MachineState(Container(2000, 1800), Container(500, 8), 3,
                   datetime(5, 250000)),
      MachineState(Container(2000, 0), Container(500, 500), 0,
                   datetime(5, 0)),
      MachineState(Container(1000, 1000), Container(250, 100), 1,
                   datetime(7, 1)),
      MachineState(Container(0, 0), Container(0, 0), 0, datetime(0, 0)) }

JContainer(capacity, current_amount) ==
    JObject([capacity |-> JNumber(capacity),
             current_amount |-> JNumber(current_amount)])

\* contents the file may have that save_state did not write
ForeignContents ==
    { NotJSON,
      JArray,
      JObject(<< >>),
      JObject([water_container |-> JNumber(5),
               coffee_container |-> JContainer(500, 100),
               total_coffees_made |-> JNumber(2),
               last_updated |-> JString(<<3>>)]),
      JObject([water_container |-> JContainer(2000, 1500),
               coffee_container |-> JArray,
               total_coffees_made |-> JNumber(2),
               last_updated |-> JString(<<3>>)]),
      JObject([water_container |-> JContainer(2000, 3000),
               coffee_container |-> JContainer(500, 100),
               total_coffees_made |-> JNumber(2),
               last_updated |-> JString(<<3>>)]),
      JObject([water_container |-> JContainer(2000, 1500),
               coffee_container |-> JContainer(500, -1),
               total_coffees_made |-> JNumber(2),
               last_updated |-> JString(<<3>>)]),
      JObject([water_container |-> JObject([capacity |-> JNumber(-5)]),
               coffee_container |-> JContainer(500, 100),
               total_coffees_made |-> JNumber(2),
               last_updated |-> JString(<<3>>)]),
      JObject([water_container |-> JContainer(2000, 1500),
               coffee_container |-> JContainer(500, 100),
               total_coffees_made |-> JString(<<3>>),
               last_updated |-> JString(<<3>>)]),
      JObject([water_container |-> JContainer(2000, 1500),
               coffee_container |-> JContainer(500, 100),
               total_coffees_made |-> JNumber(2),
               last_updated |-> JString(<< >>)]),
      JObject([water_container |-> JContainer(2000, 1500),
               coffee_container |-> JContainer(500, 100),
               total_coffees_made |-> JNumber(2)]),
      JObject([water_container |-> JContainer(2000, 1500),
               coffee_container |-> JContainer(500, 100),
               total_coffees_made |-> JNumber(-3),
               last_updated |-> JString(<<3>>)]) }

StoreFiles ==
    {Absent} \cup { <<d>> : d \in ForeignContents }
             \cup { <<Serialize(st)>> : st \in StoreStates }

\* a load_state call in the log of calls: the content it found and what it
\* ended with
LoadCall(content, out) ==
    [call |-> "load_state", content |-> content, raised |-> out.raised,
     returned |-> out.state]

\* a save_state call in the log of calls: how it ended ("returned",
\* "raised", or "crashed" when the process died inside it) and the content
\* of the file when it began
SaveEnded(st, how, before) ==
    [call |-> "save_state", arg |-> st, raised |-> how # "returned",
     how |-> how, before |-> before]

\* the caller of the store is client 1; req[1].calls is the log of its
\* calls, state[0] the state load_state returned last
InitStore ==
    /\ file \in StoreFiles
    /\ clock = 0
    /\ state = [i \in 0..NClients |-> Blank]
    /\ req = [c \in Clients |-> Idle]
    /\ app = "direct"
    /\ temp = Absent
    /\ saving = NotSaving
    /\ NoHub

StoreLoad ==
    /\ clock < MaxStoreCalls
    /\ saving.pc = "idle"
    /\ LET out == load_state(file, datetime(clock + 1, 0))
       IN  /\ req' = [req EXCEPT ![1].calls = Append(@, LoadCall(file, out))]
           /\ state' = [state EXCEPT
                            ![0] = IF out.raised = "" THEN out.state ELSE @]
    /\ clock' = clock + 1
    /\ UNCHANGED <<file, app, temp, saving,
                   active_connections, sockets, tasks>>

\* the end of a save_state call or of the process inside it
SaveEnds(how) ==
    /\ req' = [req EXCEPT ![1].calls =
                  Append(@, SaveEnded(saving.st, how, saving.before))]
    /\ saving' = NotSaving
    /\ clock' = clock + 1
    /\ UNCHANGED <<state, app,
                   active_connections, sockets, tasks>>

\* variant: the record is opened for writing in place
SaveOpen_in_place(st, io_ok) ==
    /\ clock < MaxStoreCalls
    /\ saving.pc = "idle"
    /\ IF io_ok
       THEN /\ file' = <<NotJSON>>
            /\ saving' = [pc |-> "writing", st |-> st, before |-> file]
            /\ UNCHANGED <<temp, req, clock>>
       ELSE /\ req' = [req EXCEPT ![1].calls =
                          Append(@, SaveEnded(st, "raised", file))]
            /\ clock' = clock + 1
            /\ UNCHANGED <<file, temp, saving>>
    /\ UNCHANGED <<state, app,
                   active_connections, sockets, tasks>>

\* save_state, open(temp_path, 'w'): the temp file exists and is empty, or
\* open raises and the except clause removes a temp file left behind
SaveOpen(st, io_ok) ==
    /\ clock < MaxStoreCalls
    /\ saving.pc = "idle"
    /\ IF io_ok
       THEN /\ temp' = <<NotJSON>>
            /\ saving' = [pc |-> "writing", st |-> st, before |-> file]
            /\ UNCHANGED <<req, clock>>
       ELSE /\ temp' = Absent
            /\ req' = [req EXCEPT ![1].calls =
                          Append(@, SaveEnded(st, "raised", file))]
            /\ clock' = clock + 1
            /\ UNCHANGED saving
    /\ UNCHANGED <<state, file, app,
                   active_connections, sockets, tasks>>

\* save_state, json.dump and the end of the with block: the temp file
\* holds the whole record
SaveDump ==
    /\ saving.pc = "writing"
    /\ temp' = <<Serialize(saving.st)>>
    /\ saving' = [saving EXCEPT !.pc = "written"]
    /\ UNCHANGED <<state, file, req, clock, app,
                   active_connections, sockets, tasks>>

\* save_state, os.replace(temp_path, file_path)
SaveReplace ==
    /\ saving.pc = "written"
    /\ file' = temp
    /\ temp' = Absent
    /\ SaveEnds("returned")

\* save_state, the except clause: json.dump or os.replace raised, the temp
\* file is removed and IOError raised
SaveRaise ==
    /\ saving.pc \in {"writing", "written"}
    /\ temp' = Absent
    /\ UNCHANGED file
    /\ SaveEnds("raised")

\* the process dies inside save_state: no except clause runs
SaveCrash ==
    /\ saving.pc \in {"writing", "written"}
    /\ UNCHANGED <<file, temp>>
    /\ SaveEnds("crashed")

NextStore ==
    \/ StoreLoad
    \/ \E st \in StoreStates, io_ok \in BOOLEAN : SaveOpen(st, io_ok)
    \/ SaveDump
    \/ SaveReplace
    \/ SaveRaise
    \/ SaveCrash

SpecStore == InitStore /\ [][NextStore]_vars

(* ======================================================================= *)
(*             a container on its own (app/models.py, both classes)        *)
(* ======================================================================= *)
ContainerInits == {Container(500, 0), Container(500, 8), Container(500, 500)}

ContainerAmounts == {-5, 0, 8, 492, 493}

\* a call of a container method in the log of calls: the container before
\* and after it, what it returned or raised
ContainerCall(method, amount, before, after, returned, raised) ==
    [call |-> method, amount |-> amount, before |-> before, after |-> after,
     returned |-> returned, raised |-> raised]

\* the container is state[0].water_container, its caller client 1
InitContainer ==
    /\ \E container \in ContainerInits :
          state = [i \in 0..NClients |->
                      IF i = 0 THEN [Blank EXCEPT !.water_container = container]
                      ELSE Blank]
    /\ file = Absent
    /\ clock = 0
    /\ req = [c \in Clients |-> Idle]
    /\ app = "direct"
    /\ temp = Absent
    /\ saving = NotSaving
    /\ NoHub

ContainerStep(method, amount, after, returned, raised) ==
    /\ clock < MaxContainerCalls
    /\ req' = [req EXCEPT ![1].calls =
                  Append(@, ContainerCall(method, amount,
                                          state[0].water_container, after,
                                          returned, raised))]
    /\ state' = [state EXCEPT ![0].water_container = after]
    /\ clock' = clock + 1
    /\ UNCHANGED <<file, app, temp, saving,
                   active_connections, sockets, tasks>>

CallCanDispense(amount) ==
    LET self == state[0].water_container
    IN  ContainerStep("can_dispense", amount, self,
                      can_dispense(self, amount), "")

CallCanFill(amount) ==
    LET self == state[0].water_container
    IN  ContainerStep("can_fill", amount, self, can_fill(self, amount), "")

CallDispense(amount) ==
    LET self == state[0].water_container
    IN  ContainerStep("dispense", amount, dispense(self, amount), FALSE,
                      IF can_dispense(self, amount) THEN "" ELSE "ValueError")

CallFill(amount) ==
    LET self == state[0].water_container
    IN  ContainerStep("fill", amount, fill(self, amount), FALSE,
                      IF can_fill(self, amount) THEN "" ELSE "ValueError")

NextContainer ==
    \/ \E amount \in ContainerAmounts : CallCanDispense(amount)
    \/ \E amount \in ContainerAmounts : CallCanFill(amount)
    \/ \E amount \in ContainerAmounts : CallDispense(amount)
    \/ \E amount \in ContainerAmounts : CallFill(amount)

SpecContainer == InitContainer /\ [][NextContainer]_vars

(* ======================================================================= *)
(*   the hub (app/websocket_manager.py) and the /ws endpoint of api/v1     *)
(* ======================================================================= *)
Range(s) == {s[k] : k \in 1..Len(s)}

\* list.remove(x) on a list that holds x
Remove(s, x) == SelectSeq(s, LAMBDA y : y # x)

\* variant: the connection is removed without looking whether it is there;
\* list.remove raises ValueError when it is not
disconnect_unchecked(connections, websocket) ==
    [connections |-> Remove(connections, websocket),
     raised |-> IF websocket \in Range(connections) THEN ""
                ELSE "ValueError"]

\* ConnectionManager.disconnect: the new list and the exception raised
disconnect(connections, websocket) ==
    IF websocket \in Range(connections)
    THEN [connections |-> Remove(connections, websocket), raised |-> ""]
    ELSE [connections |-> connections, raised |-> ""]

\* "for conn in disconnected: self.disconnect(conn)", up to the first
\* exception
RECURSIVE DisconnectAll(_, _)
DisconnectAll(connections, disconnected) ==
    IF disconnected = << >>
    THEN [connections |-> connections, raised |-> ""]
    ELSE LET out == disconnect(connections, Head(disconnected))
         IN  IF out.raised # "" THEN out
             ELSE DisconnectAll(out.connections, Tail(disconnected))

\* variant: disconnect leaves the entry of the websocket in
\* connection_metadata
Popped_nothing(socks, before, after) == socks

\* connection_metadata after disconnect calls that took the list from
\* before to after: the entry of a websocket is popped when the websocket
\* is removed from the list
Popped(socks, before, after) ==
    [h \in Sockets |->
        [socks[h] EXCEPT !.metadata =
            @ /\ (h \notin Range(before) \/ h \in Range(after))]]

\* the broadcast tasks that are at their await when connections are
\* removed
Disturbed(ts, connections) ==
    [b \in Broadcasts |->
        IF ts[b].pc = "sending" /\ connections # active_connections
        THEN [ts[b] EXCEPT !.intact = FALSE,
                           !.pending = @ \cap Range(connections)]
        ELSE ts[b]]

ServiceUnchanged == UNCHANGED <<state, file, req, clock, app, temp, saving>>

\* websocket_endpoint, "service = get_service()" and "status =
\* service.get_status()": get_service is the one of app/dependencies.py,
\* which makes a new service from the file
InitialStatus ==
    LET service == load_state(file, datetime(clock, 0))
    IN  [raised |-> service.raised, data |-> get_status(service.state)]

\* websocket_endpoint up to its first await after accept: manager.connect
\* appends the websocket, get_service() and get_status() give the status
\* and send_personal_message starts sending InitialStatus.data; an
\* exception of the two calls is logged and nothing is sent
Accept(h) ==
    /\ sockets[h].pc = "new"
    /\ \A g \in Sockets : g < h => sockets[g].pc # "new"
    /\ active_connections' = Append(active_connections, h)
    /\ sockets' = [sockets EXCEPT
                       ![h].pc = IF InitialStatus.raised = ""
                                 THEN "snapshot" ELSE "listening",
                       ![h].metadata = TRUE]
    /\ UNCHANGED tasks
    /\ ServiceUnchanged

\* the client of a connected websocket goes away: every later send to the
\* websocket raises, and receive_text raises WebSocketDisconnect
ClientGone(h) ==
    /\ sockets[h].pc \in {"snapshot", "listening"}
    /\ sockets[h].open
    /\ sockets' = [sockets EXCEPT ![h].open = FALSE]
    /\ UNCHANGED <<active_connections, tasks>>
    /\ ServiceUnchanged

\* send_personal_message after "await websocket.send_json(message)": when
\* the send raised, the websocket is disconnected; websocket_endpoint goes
\* on to its receive loop either way
SnapshotReturns(h) ==
    /\ sockets[h].pc = "snapshot"
    /\ IF sockets[h].open
       THEN /\ sockets' = [sockets EXCEPT ![h].pc = "listening"]
            /\ UNCHANGED <<active_connections, tasks>>
       ELSE LET out == disconnect(active_connections, h)
            IN  /\ active_connections' = out.connections
                /\ sockets' = [Popped(sockets, active_connections,
                                       out.connections)
                                    EXCEPT ![h].pc = "listening",
                                           ![h].error = out.raised]
                /\ tasks' = Disturbed(tasks, out.connections)
    /\ ServiceUnchanged

\* websocket_endpoint, "except WebSocketDisconnect": receive_text raised
\* and the websocket is disconnected
Receive(h) ==
    /\ sockets[h].pc = "listening"
    /\ ~sockets[h].open
    /\ LET out == disconnect(active_connections, h)
       IN  /\ active_connections' = out.connections
           /\ sockets' = [Popped(sockets, active_connections,
                                  out.connections)
                               EXCEPT ![h].pc = "closed",
                                      ![h].error = out.raised]
           /\ tasks' = Disturbed(tasks, out.connections)
    /\ ServiceUnchanged

\* a broadcast task that has ended
Done(raised) == [NoTask EXCEPT !.pc = "done", !.error = raised]

\* the send to the connection the iterator gave: it raises when the client
\* is gone, and broadcast puts the connection on its list disconnected
Send(t, h) ==
    [t EXCEPT !.pc = "sending", !.i = @ + 1, !.target = h,
              !.sent = Append(@, h), !.pending = @ \ {h},
              !.disconnected = IF sockets[h].open THEN @ ELSE Append(@, h)]

\* variant: an exception of send_json ends the broadcast
Advance_stops_at_failure(t, connections) ==
    IF t.i < Len(connections)
    THEN [task |-> IF sockets[connections[t.i + 1]].open
                   THEN Send(t, connections[t.i + 1])
                   ELSE Done("Exception"),
          connections |-> connections]
    ELSE LET out == DisconnectAll(connections, t.disconnected)
         IN  [task |-> Done(out.raised), connections |-> out.connections]

\* variant: the failed connections are not removed after the loop
Advance_keeps_failed(t, connections) ==
    IF t.i < Len(connections)
    THEN [task |-> Send(t, connections[t.i + 1]),
          connections |-> connections]
    ELSE [task |-> Done(""), connections |-> connections]

\* broadcast from one await to the next: the list iterator of "for
\* connection in self.active_connections" takes the element at its index
\* from the list as it is now and the send to it starts; when the index is
\* past the end, the failed connections are disconnected and the task ends
Advance(t, connections) ==
    IF t.i < Len(connections)
    THEN [task |-> Send(t, connections[t.i + 1]),
          connections |-> connections]
    ELSE LET out == DisconnectAll(connections, t.disconnected)
         IN  [task |-> Done(out.raised), connections |-> out.connections]

\* what a step of broadcast task b leaves behind
Advanced(b, t) ==
    LET adv == Advance(t, active_connections)
    IN  /\ active_connections' = adv.connections
        /\ tasks' = [Disturbed(tasks, adv.connections) EXCEPT ![b] = adv.task]
        /\ sockets' = Popped(sockets, active_connections, adv.connections)

\* the event loop starts a broadcast task; tasks start in the order of
\* their creation
BroadcastStart(b) ==
    /\ tasks[b].pc = "created"
    /\ \A a \in Broadcasts : a < b => tasks[a].pc # "created"
    /\ Advanced(b, [tasks[b] EXCEPT !.pending = Range(active_connections)])
    /\ ServiceUnchanged

\* broadcast after "await connection.send_json(message)": the loop goes on
BroadcastResumes(b) ==
    /\ tasks[b].pc = "sending"
    /\ Advanced(b, tasks[b])
    /\ ServiceUnchanged

\* the events of the create_task calls among the calls of a service method
CreatedTasks(calls) ==
    LET RECURSIVE events(_)
        events(k) == IF k = 0 THEN << >>
                     ELSE IF calls[k].call = "create_task"
                     THEN Append(events(k - 1), calls[k].event)
                     ELSE events(k - 1)
    IN  events(Len(calls))

\* a request of api/v1 served while the hub runs: get_service() makes a
\* service that loads the file, the endpoint calls its method, and the
\* tasks the method created wait for the event loop
HubServe(op, coffee_type, amount, out, pre) ==
    LET events == CreatedTasks(out.calls)
        created == Cardinality({b \in Broadcasts : tasks[b].pc # "none"})
    IN  /\ clock < MaxHubRequests
        /\ created + Len(events) <= MaxBroadcasts
        /\ state' = [state EXCEPT ![1] = out.state]
        /\ file' = out.file
        /\ clock' = clock + 1
        /\ req' = [req EXCEPT ![1] =
                      [Idle EXCEPT !.pc = "done", !.route = "v1", !.op = op,
                                   !.coffee_type = coffee_type,
                                   !.amount = amount, !.sid = 1,
                                   !.at = clock, !.seq = clock + 1,
                                   !.pre = pre, !.post = out.state,
                                   !.calls = out.calls,
                                   !.result = out.result]]
        /\ tasks' = [b \in Broadcasts |->
                        IF created < b /\ b <= created + Len(events)
                        THEN [NoTask EXCEPT !.pc = "created",
                                            !.message = events[b - created]]
                        ELSE tasks[b]]
        /\ UNCHANGED <<app, temp, saving, active_connections, sockets>>

HubMakeCoffee(io_ok) ==
    LET st == load_state(file, datetime(clock, 0)).state
    IN  HubServe("make_coffee", "espresso", 0,
                 make_coffee(st, file, "espresso", Now, loop_running, io_ok),
                 st)

\* the amounts of the fills requested while the hub runs: 2000 fills the
\* empty machine and is refused when the machine holds water
HubAmounts == {2000}

HubFillWater(amount, io_ok) ==
    LET st == load_state(file, datetime(clock, 0)).state
    IN  HubServe("fill_water", "", amount,
                 fill_water(st, file, amount, Now, loop_running, io_ok), st)

InitHub ==
    /\ app = "v1"
    /\ file \in InitFiles(app)
    /\ clock = 0
    /\ state = [i \in 0..NClients |-> Blank]
    /\ req = [c \in Clients |-> Idle]
    /\ temp = Absent
    /\ saving = NotSaving
    /\ NoHub

NextHub ==
    \/ \E h \in Sockets : Accept(h)
    \/ \E h \in Sockets : ClientGone(h)
    \/ \E h \in Sockets : SnapshotReturns(h)
    \/ \E h \in Sockets : Receive(h)
    \/ \E b \in Broadcasts : BroadcastStart(b)
    \/ \E b \in Broadcasts : BroadcastResumes(b)
    \/ HubMakeCoffee(TRUE)
    \/ \E amount \in HubAmounts, io_ok \in BOOLEAN :
          HubFillWater(amount, io_ok)

SpecHub == InitHub /\ [][NextHub]_vars

(* ======================================================================= *)
(*      the list of connections on its own (app/websocket_manager.py)      *)
(* ======================================================================= *)
\* a connect or disconnect call in the log of calls: the list before and
\* after it, the exception it raised
RegistryCall(method, websocket, before, out) ==
    [call |-> method, websocket |-> websocket, before |-> before,
     after |-> out.connections, raised |-> out.raised]

\* the caller of the manager is client 1
InitRegistry ==
    /\ app = "v1"
    /\ file = Absent
    /\ clock = 0
    /\ state = [i \in 0..NClients |-> Blank]
    /\ req = [c \in Clients |-> Idle]
    /\ temp = Absent
    /\ saving = NotSaving
    /\ NoHub

RegistryStep(method, h, out) ==
    /\ clock < MaxRegistryCalls
    /\ active_connections' = out.connections
    /\ req' = [req EXCEPT ![1].calls =
                  Append(@, RegistryCall(method, h, active_connections, out))]
    /\ sockets' = IF method = "connect"
                  THEN [sockets EXCEPT ![h].metadata = TRUE]
                  ELSE Popped(sockets, active_connections, out.connections)
    /\ clock' = clock + 1
    /\ UNCHANGED <<state, file, app, temp, saving, tasks>>

\* manager.connect of a websocket that is not connected
CallConnect(h) ==
    /\ h \notin Range(active_connections)
    /\ RegistryStep("connect", h,
                    [connections |-> Append(active_connections, h),
                     raised |-> ""])

\* manager.disconnect of any websocket, connected or not
CallDisconnect(h) ==
    RegistryStep("disconnect", h, disconnect(active_connections, h))

NextRegistry ==
    \/ \E h \in Sockets : CallConnect(h)
    \/ \E h \in Sockets : CallDisconnect(h)

SpecRegistry == InitRegistry /\ [][NextRegistry]_vars

(* ======================================================================= *)
(*                              properties                                 *)
(* ======================================================================= *)
\* the request of client c was served by a service method
Served(c) ==
    req[c].pc = "done" /\ req[c].result # RequestValidationError

ServedOp(c, op) == Served(c) /\ req[c].op = op

\* the service objects that exist: the one made at startup and the ones
\* made for requests in flight
Services == {0} \cup {c \in Clients : req[c].sid = c}

WithinBounds(container) ==
    0 <= container.current_amount
    /\ container.current_amount <= container.capacity

\* the save_state calls among the calls of a served request
SaveCalls(c) ==
    {k \in 1..Len(req[c].calls) : req[c].calls[k].call = "save_state"}

SaveRaised(c) ==
    \E k \in SaveCalls(c) : req[c].calls[k].raised

(* ----------------------------------------------------------------------- *)
\* C1: after any sequence of make_coffee, fill_water, fill_coffee and reset
\* calls, failing or not, both containers of the service satisfy
\* 0 <= current_amount <= capacity.
C1_LevelsWithinBounds ==
    /\ \A i \in Services :
          /\ WithinBounds(state[i].water_container)
          /\ WithinBounds(state[i].coffee_container)
    /\ \A c \in Clients :
          Served(c) =>
              /\ WithinBounds(req[c].post.water_container)
              /\ WithinBounds(req[c].post.coffee_container)

\* a fill has brought the water exactly to capacity and a later call of the
\* same caller was answered on that state
C1_Witness ==
    \E c \in Clients :
        /\ Served(c)
        /\ req[c].seq >= 2
        /\ req[c].pre.water_container.current_amount =
               req[c].pre.water_container.capacity
        /\ req[c].pre.water_container.current_amount > 0

(* ----------------------------------------------------------------------- *)
\* c1 and c2 are espresso requests issued together against a state with
\* 30 ml of water and coffee for both, served one after the other with no
\* other call in between, c1 first
TwoEspressos(c1, c2) ==
    /\ c1 # c2
    /\ ServedOp(c1, "make_coffee") /\ req[c1].coffee_type = "espresso"
    /\ ServedOp(c2, "make_coffee") /\ req[c2].coffee_type = "espresso"
    /\ req[c1].route = req[c2].route
    /\ req[c1].at = req[c2].at
    /\ req[c1].seq = req[c1].at + 1
    /\ req[c2].seq = req[c1].at + 2
    /\ req[c1].pre.water_container.current_amount = 30
    /\ req[c1].pre.coffee_container.current_amount >= 16
    /\ ~SaveRaised(c1) /\ ~SaveRaised(c2)

\* C2: two concurrent espresso requests against water = 30 (24 needed each)
\* end with exactly one success and one InsufficientResources failure on
\* water; the two never both succeed and the water never goes below 0
\* (stated for requests whose writes to the file succeed).
C2_NoDoubleSpend ==
    \A c1, c2 \in Clients :
        TwoEspressos(c1, c2) =>
            /\ req[c1].result = Success
            /\ req[c2].result.kind = "InsufficientResourcesException"
            /\ req[c2].result.what = "water"
            /\ req[c1].post.water_container.current_amount >= 0
            /\ req[c2].post.water_container.current_amount >= 0

(* ----------------------------------------------------------------------- *)
\* client c's request holds a service whose state it has read from the file
\* and whose method has not run yet
HoldsRead(c) == req[c].pc = "ready" /\ req[c].sid = c

\* C3: mutating operations are serialized: between the moment an operation
\* reads the machine state and the moment it has persisted its result no
\* other operation takes a step, so no two operations observe the same
\* pre-state.
C3_Serialized ==
    \A c1, c2 \in Clients :
        (c1 # c2 /\ HoldsRead(c1)) => ~HoldsRead(c2)

(* ----------------------------------------------------------------------- *)
\* C4: a make_coffee that fails a resource check leaves both levels,
\* total_coffees_made and last_updated as they were and calls neither
\* save_state nor the hub; with enough water and too little coffee no water
\* is dispensed.
C4_FailedBrewChangesNothing ==
    \A c \in Clients :
        (ServedOp(c, "make_coffee")
         /\ req[c].result.kind = "InsufficientResourcesException") =>
            /\ req[c].post = req[c].pre
            /\ req[c].calls = << >>

\* a brew was refused for lack of coffee on a state that had the water
C4_Witness ==
    \E c \in Clients :
        /\ ServedOp(c, "make_coffee")
        /\ req[c].result.kind = "InsufficientResourcesException"
        /\ req[c].result.what = "coffee"
        /\ req[c].pre.water_container.current_amount >=
               RECIPES[req[c].coffee_type].water
        /\ req[c].pre.water_container.current_amount > 0

(* ----------------------------------------------------------------------- *)
\* C5: when both water and coffee are below the recipe, make_coffee fails
\* with InsufficientResources naming water, with needed = the recipe's water
\* and available = the water level; coffee is named only when the water is
\* sufficient and the coffee is not.
C5_WaterReportedFirst ==
    \A c \in Clients :
        ServedOp(c, "make_coffee") =>
            LET recipe == RECIPES[req[c].coffee_type]
                water == req[c].pre.water_container.current_amount
                coffee == req[c].pre.coffee_container.current_amount
            IN  /\ (water < recipe.water /\ coffee < recipe.coffee) =>
                       req[c].result =
                           InsufficientResourcesException(
                               "water", recipe.water, water)
                /\ (req[c].result.kind = "InsufficientResourcesException"
                    /\ req[c].result.what = "coffee") =>
                       (water >= recipe.water /\ coffee < recipe.coffee)

\* a brew was served on a state short of both water and coffee
C5_Witness ==
    \E c \in Clients :
        /\ ServedOp(c, "make_coffee")
        /\ req[c].pre.water_container.current_amount <
               RECIPES[req[c].coffee_type].water
        /\ req[c].pre.coffee_container.current_amount <
               RECIPES[req[c].coffee_type].coffee
        /\ req[c].result.what = "water"

(* ----------------------------------------------------------------------- *)
\* the quantities the variants are said to use
ClaimedRecipe(coffee_type) ==
    CASE coffee_type = "espresso"        -> [coffee |-> 8,  water |-> 24]
      [] coffee_type = "double_espresso" -> [coffee |-> 16, water |-> 48]
      [] coffee_type = "ristretto"       -> [coffee |-> 8,  water |-> 16]
      [] coffee_type = "americano"       -> [coffee |-> 16, water |-> 148]

HadEnough(c) ==
    /\ req[c].pre.water_container.current_amount >=
           ClaimedRecipe(req[c].coffee_type).water
    /\ req[c].pre.coffee_container.current_amount >=
           ClaimedRecipe(req[c].coffee_type).coffee

\* C6: for each of the four variants (espresso 8/24, double espresso 16/48,
\* ristretto 8/16, americano 16/148) a make_coffee on a state holding at
\* least the recipe's water and coffee is not refused, takes exactly the
\* recipe's water and coffee, adds exactly 1 to total_coffees_made, and
\* returns success once save_state has returned.
C6_BrewTakesRecipe ==
    \A c \in Clients :
        (ServedOp(c, "make_coffee") /\ HadEnough(c)) =>
            LET recipe == ClaimedRecipe(req[c].coffee_type)
                pre == req[c].pre
                post == req[c].post
            IN  /\ post.water_container.current_amount =
                       pre.water_container.current_amount - recipe.water
                /\ post.coffee_container.current_amount =
                       pre.coffee_container.current_amount - recipe.coffee
                /\ post.water_container.capacity =
                       pre.water_container.capacity
                /\ post.coffee_container.capacity =
                       pre.coffee_container.capacity
                /\ post.total_coffees_made = pre.total_coffees_made + 1
                /\ req[c].result.kind # "InsufficientResourcesException"
                /\ ~SaveRaised(c) => req[c].result = Success

\* a ristretto has been brewed with success on a state that had just enough
\* water for it (30 ml: more than the 16 it needs)
C6_Witness ==
    \E c \in Clients :
        /\ ServedOp(c, "make_coffee")
        /\ req[c].coffee_type = "ristretto"
        /\ HadEnough(c)
        /\ req[c].result = Success
        /\ req[c].pre.water_container.current_amount = 30

(* ----------------------------------------------------------------------- *)
\* client c's reset runs in this step
ResetStep(c) ==
    req[c].pc = "ready" /\ req[c].op = "reset" /\ req'[c].pc = "done"

\* C7: from one state to the next total_coffees_made of a service never
\* decreases except in a reset step, and right after a reset it is 0.
C7_CounterMonotone ==
    [][\A i \in 0..NClients :
          (i \in Services /\ i \in Services') =>
              /\ state'[i].total_coffees_made < state[i].total_coffees_made
                     => \E c \in Clients : ResetStep(c) /\ req[c].sid = i
              /\ \A c \in Clients :
                     (ResetStep(c) /\ req[c].sid = i) =>
                         state'[i].total_coffees_made = 0]_vars

\* a reset has run on a state whose counter was above 0
C7_Witness ==
    \E c \in Clients :
        /\ ServedOp(c, "reset")
        /\ req[c].pre.total_coffees_made > 0
        /\ req[c].post.total_coffees_made = 0

(* ----------------------------------------------------------------------- *)
\* C8: reset, after any sequence of operations, leaves water 0, coffee 0,
\* total_coffees_made 0 and both capacities at the configured values; this
\* is the state it hands to save_state, and the file holds it when the
\* write returns.
C8_ResetState ==
    [][\A c \in Clients :
          ResetStep(c) =>
              LET st == state'[req[c].sid]
                  calls == req'[c].calls
              IN  /\ st.water_container = Container(water_capacity, 0)
                  /\ st.coffee_container = Container(coffee_capacity, 0)
                  /\ st.total_coffees_made = 0
                  /\ req'[c].post = st
                  /\ Len(calls) = 1
                  /\ calls[1].call = "save_state"
                  /\ calls[1].arg = st
                  /\ ~calls[1].raised => file' = <<Serialize(st)>>]_vars

\* a reset has run on a state with other capacities, some water and coffee
\* and a counter above 0, and its write went through
C8_Witness ==
    \E c \in Clients :
        /\ ServedOp(c, "reset")
        /\ req[c].seq >= 2
        /\ req[c].pre.water_container.capacity # water_capacity
        /\ req[c].pre.water_container.current_amount > 0
        /\ req[c].pre.coffee_container.current_amount > 0
        /\ req[c].pre.total_coffees_made > 0
        /\ ~SaveRaised(c)
        /\ file = <<Serialize(req[c].post)>>

(* ----------------------------------------------------------------------- *)
\* C9: reset always succeeds: from every state, and whatever the outcome of
\* the write, it returns a success result and never a failure.
C9_ResetAlwaysSucceeds ==
    \A c \in Clients :
        ServedOp(c, "reset") => req[c].result = Success

(* ----------------------------------------------------------------------- *)
\* C10: fill_water(amount) and fill_coffee(amount) with amount <= 0 fail
\* with InvalidAmount carrying that amount, in every state (never with
\* ContainerOverflow), leave the state unchanged and call neither
\* save_state nor the hub.
C10_NonPositiveAmountRefused ==
    \A c \in Clients :
        ((ServedOp(c, "fill_water") \/ ServedOp(c, "fill_coffee"))
         /\ req[c].amount <= 0) =>
            /\ req[c].result = InvalidAmountException(req[c].amount)
            /\ req[c].post = req[c].pre
            /\ req[c].calls = << >>

\* fill_water(0) has been refused on a state that had room for more
C10_Witness ==
    \E c \in Clients :
        /\ ServedOp(c, "fill_water")
        /\ req[c].amount = 0
        /\ req[c].result.kind = "InvalidAmountException"
        /\ req[c].pre.water_container.current_amount <
               req[c].pre.water_container.capacity

(* ----------------------------------------------------------------------- *)
\* client c's request was a fill served by fill_water or fill_coffee
ServedFill(c) == ServedOp(c, "fill_water") \/ ServedOp(c, "fill_coffee")

\* the container a fill request is about, in state st
Filled(c, st) ==
    IF req[c].op = "fill_water" THEN st.water_container
    ELSE st.coffee_container

FilledName(c) == IF req[c].op = "fill_water" THEN "water" ELSE "coffee"

C12_FillAddsAmount ==
    \A c \in Clients :
        LET pre == req[c].pre
            post == req[c].post
        IN  ServedFill(c) =>
                /\ (req[c].amount > 0
                    /\ Filled(c, pre).current_amount + req[c].amount <=
                           Filled(c, pre).capacity) =>
                       req[c].result.kind \in {"ok", "IOError"}
                /\ req[c].result = Success =>
                       /\ Filled(c, post).current_amount =
                              Filled(c, pre).current_amount + req[c].amount
                       /\ post.water_container.capacity =
                              pre.water_container.capacity
                       /\ post.coffee_container.capacity =
                              pre.coffee_container.capacity
                       /\ post.total_coffees_made = pre.total_coffees_made
                       /\ req[c].op = "fill_water" =>
                              post.coffee_container = pre.coffee_container
                       /\ req[c].op = "fill_coffee" =>
                              post.water_container = pre.water_container

\* a fill_water has brought a partly filled container exactly to capacity
C12_Witness ==
    \E c \in Clients :
        /\ ServedOp(c, "fill_water")
        /\ req[c].result = Success
        /\ req[c].pre.water_container.current_amount > 0
        /\ req[c].post.water_container.current_amount =
               req[c].post.water_container.capacity
        /\ req[c].post.water_container.current_amount =
               req[c].pre.water_container.current_amount + req[c].amount

(* ----------------------------------------------------------------------- *)
\* C13: a make_coffee, fill_water, fill_coffee or reset that succeeds has
\* called save_state exactly once, with the state it left behind; one that
\* is refused by the request validation, the amount check, a resource check
\* or the capacity check has not called it.
C13_SavedOncePerSuccess ==
    \A c \in Clients :
        req[c].pc = "done" =>
            /\ (req[c].result = Success /\ req[c].op # "get_status") =>
                   /\ Cardinality(SaveCalls(c)) = 1
                   /\ \A k \in SaveCalls(c) :
                          /\ req[c].calls[k].arg = req[c].post
                          /\ ~req[c].calls[k].raised
            /\ req[c].result.kind \in
                   {"RequestValidationError", "InvalidAmountException",
                    "InsufficientResourcesException",
                    "ContainerOverflowException"} =>
                   SaveCalls(c) = {}

\* a reset has succeeded on a state that differed from the one it left
C13_Witness ==
    \E c \in Clients :
        /\ ServedOp(c, "reset")
        /\ req[c].result = Success
        /\ req[c].pre.water_container # req[c].post.water_container
        /\ Cardinality(SaveCalls(c)) = 1

(* ----------------------------------------------------------------------- *)
\* the create_task calls among the calls of a served request
TaskCalls(c) ==
    {k \in 1..Len(req[c].calls) : req[c].calls[k].call = "create_task"}

ServedBrewOrFill(c) == ServedOp(c, "make_coffee") \/ ServedFill(c)

\* C14: in every make_coffee and fill, an event is handed to the hub
\* (create_task of a broadcast) only after a save_state call of that
\* operation has returned: no coffee_made or status_update is issued for an
\* operation whose save has not completed.
C14_PersistBeforeNotify ==
    \A c \in Clients :
        ServedBrewOrFill(c) =>
            \A k \in TaskCalls(c) :
                \E j \in SaveCalls(c) : j < k /\ ~req[c].calls[j].raised

(* ----------------------------------------------------------------------- *)
\* the state a make_coffee or fill of request c makes of state st
Mutated(c, st) ==
    CASE req[c].op = "make_coffee" ->
             [st EXCEPT
                 !.water_container.current_amount =
                     @ - ClaimedRecipe(req[c].coffee_type).water,
                 !.coffee_container.current_amount =
                     @ - ClaimedRecipe(req[c].coffee_type).coffee,
                 !.total_coffees_made = @ + 1]
      [] req[c].op = "fill_water" ->
             [st EXCEPT !.water_container.current_amount = @ + req[c].amount]
      [] req[c].op = "fill_coffee" ->
             [st EXCEPT !.coffee_container.current_amount = @ + req[c].amount]

SameButTime(s, t) == [s EXCEPT !.last_updated = t.last_updated] = t

\* request d was served on the service of request c after c
Later(c, d) ==
    d # c /\ Served(d) /\ req[d].sid = req[c].sid /\ req[d].seq > req[c].seq

\* C15: when save_state raises during a make_coffee or a fill, the state of
\* the service keeps the change already made (levels dispensed or filled,
\* counter incremented): it is not put back, it is what the service holds
\* until the next call and what the next operation on that service starts
\* from.
C15_MutationStands ==
    \A c \in Clients :
        (ServedBrewOrFill(c) /\ SaveRaised(c)) =>
            /\ SameButTime(Mutated(c, req[c].pre), req[c].post)
            /\ req[c].post # req[c].pre
            /\ req[c].seq = clock => state[req[c].sid] = req[c].post
            /\ \A d \in Clients :
                   (Later(c, d) /\ req[d].seq = req[c].seq + 1) =>
                       req[d].pre = req[c].post

\* an espresso whose save failed was followed, on the same service, by an
\* operation that started from the state without the water it took
C15_Witness ==
    \E c, d \in Clients :
        /\ ServedOp(c, "make_coffee")
        /\ SaveRaised(c)
        /\ Later(c, d)
        /\ req[d].seq = req[c].seq + 1
        /\ req[d].pre.water_container.current_amount =
               req[c].pre.water_container.current_amount - 24
        /\ req[d].pre.total_coffees_made = req[c].pre.total_coffees_made + 1

(* ----------------------------------------------------------------------- *)
\* C16: a make_coffee or fill that has changed the state of the service and
\* whose save_state then raises is not reported to its caller as failed:
\* the caller gets the success result of the operation.
C16_SaveFailureNotOperationFailure ==
    \A c \in Clients :
        (ServedBrewOrFill(c) /\ SaveRaised(c)
         /\ req[c].post # req[c].pre) =>
            req[c].result = Success

(* ----------------------------------------------------------------------- *)
\* C17: over HTTP every failure of a service method (insufficient
\* resources, container overflow, invalid amount, failed write) is answered
\* with a response of its own type carrying its data, never with the
\* generic internal server error.
C17_ErrorsTyped ==
    \A c \in Clients :
        (Served(c) /\ req[c].route # "direct"
         /\ req[c].result # Success) =>
            LET response == Response(req[c].result)
            IN  /\ response # InternalServerError
                /\ response.content.error_type = req[c].result.kind
                /\ response.content.details # << >>

(* ----------------------------------------------------------------------- *)
\* client c's get_status runs in this step
GetStatusStep(c) ==
    req[c].pc = "ready" /\ req[c].op = "get_status" /\ req'[c].pc = "done"

\* request d was a get_status answered by the service of c's request as
\* the last call before this state
JustRead(c, d) ==
    /\ d # c
    /\ ServedOp(d, "get_status")
    /\ req[d].sid = req[c].sid
    /\ req[d].seq = clock

\* C18: get_status is a pure read: in whatever state it runs it returns
\* success with the data of the state it found, changes no field of any
\* service's state, leaves the file alone and calls neither save_state nor
\* the hub; a get_status that follows another one on the same service with
\* no call in between returns the same data.
C18_StatusIsPureRead ==
    [][\A c \in Clients :
          GetStatusStep(c) =>
              /\ req'[c].result = Success
              /\ req'[c].data = get_status(state[req[c].sid])
              /\ state' = state
              /\ file' = file
              /\ req'[c].calls = << >>
              /\ \A d \in Clients :
                     JustRead(c, d) => req'[c].data = req[d].data]_vars

\* two get_status calls in a row were answered by the same service, which
\* held water, with the same data
C18_Witness ==
    \E c, d \in Clients :
        /\ ServedOp(c, "get_status")
        /\ ServedOp(d, "get_status")
        /\ c # d
        /\ req[c].sid = req[d].sid
        /\ req[c].seq = req[d].seq + 1
        /\ req[c].data = req[d].data
        /\ req[c].data.water_level > 0

(* ----------------------------------------------------------------------- *)
\* the positions of the load_state calls in the log of store calls
LoadCalls ==
    {k \in 1..Len(req[1].calls) : req[1].calls[k].call = "load_state"}

IsContainerRecord(v) ==
    /\ IsObject(v)
    /\ DOMAIN v.object = {"capacity", "current_amount"}
    /\ IsNumber(v.object.capacity)
    /\ IsNumber(v.object.current_amount)
    /\ 0 <= v.object.current_amount.number
    /\ v.object.current_amount.number <= v.object.capacity.number

\* the file holds a record of the expected shape whose values respect the
\* container bounds
IsValidRecord(f) ==
    /\ f # Absent
    /\ IsObject(f[1])
    /\ DOMAIN f[1].object = {"water_container", "coffee_container",
                             "total_coffees_made", "last_updated"}
    /\ IsContainerRecord(f[1].object.water_container)
    /\ IsContainerRecord(f[1].object.coffee_container)
    /\ IsNumber(f[1].object.total_coffees_made)
    /\ IsString(f[1].object.last_updated)
    /\ IsIsoFormat(f[1].object.last_updated.string)

IsFreshDefault(st) ==
    /\ st.water_container = Container(water_capacity, 0)
    /\ st.coffee_container = Container(coffee_capacity, 0)
    /\ st.total_coffees_made = 0

\* C19: load_state never fails: whatever the file holds it returns a
\* state, and when the file is absent, cannot be decoded, is not a record
\* of the expected shape or holds values outside the container bounds,
\* that state is the fresh default (configured capacities, levels 0,
\* counter 0).
C19_LoadNeverFails ==
    \A k \in LoadCalls :
        LET load == req[1].calls[k]
        IN  /\ load.raised = ""
            /\ ~IsValidRecord(load.content) => IsFreshDefault(load.returned)

(* ----------------------------------------------------------------------- *)
\* the k-th call of the log is a save_state that returned and the next
\* one a load_state
SavedThenLoaded(k) ==
    /\ k + 1 <= Len(req[1].calls)
    /\ req[1].calls[k].call = "save_state"
    /\ ~req[1].calls[k].raised
    /\ req[1].calls[k + 1].call = "load_state"

\* C20: for every valid state s, a save_state(s) that returns followed by
\* load_state gives back a state with the levels, the capacities, the
\* total_coffees_made and the last_updated of s.
C20_RoundTrip ==
    \A k \in 1..Len(req[1].calls) :
        SavedThenLoaded(k) =>
            /\ req[1].calls[k + 1].raised = ""
            /\ req[1].calls[k + 1].returned = req[1].calls[k].arg

\* a state with water, coffee, a counter above 0 and a fraction of a second
\* in last_updated was saved and loaded back
C20_Witness ==
    \E k \in 1..Len(req[1].calls) :
        /\ SavedThenLoaded(k)
        /\ req[1].calls[k].arg.water_container.current_amount > 0
        /\ req[1].calls[k].arg.coffee_container.current_amount > 0
        /\ req[1].calls[k].arg.total_coffees_made > 0
        /\ req[1].calls[k].arg.last_updated.usec # 0
        /\ req[1].calls[k + 1].returned = req[1].calls[k].arg
(* ----------------------------------------------------------------------- *)
\* a save_state call that did not return, followed at once by load_state
Interrupted(k) ==
    /\ k < Len(req[1].calls)
    /\ req[1].calls[k].call = "save_state"
    /\ req[1].calls[k].raised
    /\ req[1].calls[k + 1].call = "load_state"

\* C21: whenever save_state raises or the process dies inside it, the next
\* load_state finds in file_path either the content it had before the save
\* or the whole serialized new state, and returns the state persisted
\* before or the new state when the content before was a valid record;
\* while a save is in progress file_path keeps its content
C21_SaveIsAtomic ==
    /\ saving.pc # "idle" => file = saving.before
    /\ \A k \in 1..Len(req[1].calls) :
          Interrupted(k) =>
              LET sv == req[1].calls[k]
                  ld == req[1].calls[k + 1]
              IN  /\ ld.content \in {sv.before, <<Serialize(sv.arg)>>}
                  /\ IsValidRecord(sv.before) =>
                        /\ ld.raised = ""
                        /\ ld.returned \in
                              {load_state(sv.before, datetime(0, 0)).state,
                               sv.arg}

\* the process died with the temp file written, over a valid record of
\* another state, and load_state returned that state
C21_Witness ==
    \E k \in 1..Len(req[1].calls) :
        /\ Interrupted(k)
        /\ k + 1 = Len(req[1].calls)
        /\ req[1].calls[k].how = "crashed"
        /\ temp = <<Serialize(req[1].calls[k].arg)>>
        /\ IsValidRecord(req[1].calls[k].before)
        /\ req[1].calls[k + 1].returned # req[1].calls[k].arg
        /\ req[1].calls[k + 1].returned \in StoreStates

(* ----------------------------------------------------------------------- *)
\* C30: can_dispense(amount) returns true exactly when amount <=
\* current_amount and can_fill(amount) exactly when current_amount + amount
\* <= capacity; dispense and fill raise exactly when the predicate is false
\* and then leave the container as it was, and otherwise take exactly
\* amount from current_amount, or add it
C30_ContainerContract ==
    \A k \in 1..Len(req[1].calls) :
        LET e == req[1].calls[k]
            cur == e.before.current_amount
            cap == e.before.capacity
            moved(n) == [e.before EXCEPT !.current_amount = cur + n]
        IN  CASE e.call = "can_dispense" ->
                     /\ e.returned <=> e.amount <= cur
                     /\ e.after = e.before
              [] e.call = "can_fill" ->
                     /\ e.returned <=> cur + e.amount <= cap
                     /\ e.after = e.before
              [] e.call = "dispense" ->
                     /\ e.raised # "" <=> ~(e.amount <= cur)
                     /\ e.after = IF e.raised # "" THEN e.before
                                  ELSE moved(0 - e.amount)
              [] e.call = "fill" ->
                     /\ e.raised # "" <=> ~(cur + e.amount <= cap)
                     /\ e.after = IF e.raised # "" THEN e.before
                                  ELSE moved(e.amount)
              [] OTHER -> TRUE

\* a fill one unit over the capacity raised, then the whole content was
\* dispensed
C30_Witness ==
    /\ Len(req[1].calls) = 2
    /\ req[1].calls[1].call = "fill"
    /\ req[1].calls[1].before = Container(500, 8)
    /\ req[1].calls[1].amount = 493
    /\ req[1].calls[1].raised = "ValueError"
    /\ req[1].calls[2].call = "dispense"
    /\ req[1].calls[2].amount = 8
    /\ req[1].calls[2].raised = ""
    /\ state[0].water_container = Container(500, 0)
(* ----------------------------------------------------------------------- *)
\* C28: every request is served by the service object made at startup; no
\* other CoffeeMachineService is made afterwards
C28_OneServiceInstance ==
    \A c \in Clients :
        req[c].pc \in {"ready", "done"} => req[c].sid = 0

(* ----------------------------------------------------------------------- *)
\* the events handed to the hub by the call of request c, in order
Events(c) ==
    LET ks == TaskCalls(c)
        RECURSIVE upto(_)
        upto(k) == IF k = 0 THEN << >>
                   ELSE IF k \in ks THEN Append(upto(k - 1),
                                                req[c].calls[k].event)
                   ELSE upto(k - 1)
    IN  upto(Len(req[c].calls))

\* the levels and the counter a status_update carries are those of st
CarriesState(event, st) ==
    /\ event.type = "status_update"
    /\ event.data.water_level = st.water_container.current_amount
    /\ event.data.coffee_level = st.coffee_container.current_amount
    /\ event.data.total_coffees_made = st.total_coffees_made

\* C29: in the web server, a make_coffee that returns hands to the hub a
\* coffee_made event with the coffee type and the recipe's quantities and
\* then a status_update with the levels and the counter after the brew; a
\* fill that returns hands over one status_update with the state after
\* the fill; a call that ends with an exception hands over no event
C29_EventsFollowOutcome ==
    \A c \in Clients :
        (loop_running /\ ServedBrewOrFill(c)) =>
            LET events == Events(c)
            IN  IF req[c].result # Success
                THEN events = << >>
                ELSE IF req[c].op = "make_coffee"
                THEN /\ Len(events) = 2
                     /\ events[1] = coffee_made(
                                        req[c].coffee_type,
                                        ClaimedRecipe(req[c].coffee_type))
                     /\ CarriesState(events[2], req[c].post)
                ELSE /\ Len(events) = 1
                     /\ CarriesState(events[1], req[c].post)

\* the same holds of the calls that return and of those refused by a check
EventsFollowOutcomeButSaveFailure ==
    \A c \in Clients :
        (loop_running /\ ServedBrewOrFill(c) /\ req[c].result # IOError) =>
            LET events == Events(c)
            IN  IF req[c].result # Success
                THEN events = << >>
                ELSE IF req[c].op = "make_coffee"
                THEN /\ Len(events) = 2
                     /\ events[1] = coffee_made(
                                        req[c].coffee_type,
                                        ClaimedRecipe(req[c].coffee_type))
                     /\ CarriesState(events[2], req[c].post)
                ELSE /\ Len(events) = 1
                     /\ CarriesState(events[1], req[c].post)

(* ----------------------------------------------------------------------- *)
\* broadcast task b ends in this step
Completes(b) ==
    tasks[b].pc \in {"created", "sending"} /\ tasks'[b].pc = "done"

\* the connections registered when task b started that are still
\* registered and that it has not sent to
PendingOf(b) ==
    IF tasks[b].pc = "created" THEN Range(active_connections)
    ELSE tasks[b].pending

NoDuplicates(s) ==
    \A j, k \in 1..Len(s) : j # k => s[j] # s[k]

\* C22: when a broadcast ends and nobody else has removed a connection
\* while it ran, it has sent once to every connection registered when it
\* started, those after a connection whose send raised included, and the
\* task ended without an exception
C22_FailureIsolated ==
    [][\A b \in Broadcasts :
          (Completes(b) /\ tasks[b].intact) =>
              /\ PendingOf(b) = {}
              /\ NoDuplicates(tasks[b].sent)
              /\ Range(tasks[b].disconnected) \subseteq Range(tasks[b].sent)
              /\ tasks'[b].error = ""]_vars

\* a broadcast nobody disturbed has sent to two connections: the send to
\* the first raised, the second was sent to all the same
C22_Witness ==
    \E b \in Broadcasts :
        /\ tasks[b].pc = "sending"
        /\ tasks[b].intact
        /\ Len(tasks[b].sent) = 2
        /\ tasks[b].disconnected = << tasks[b].sent[1] >>
        /\ tasks[b].pending = {}
        /\ sockets[tasks[b].sent[2]].open

(* ----------------------------------------------------------------------- *)
\* the send of the initial status to websocket h returns in this step
SnapshotStep(h) ==
    sockets[h].pc = "snapshot" /\ sockets'[h].pc = "listening"

\* C23: a connection to which a send raised is not registered any more
\* when the broadcast, or the send_personal_message, has ended; a websocket
\* that was connected and is not registered is never registered again; and
\* a broadcast sends only to connections that are registered
C23_FailedIsPruned ==
    [][/\ \A b \in Broadcasts :
             Completes(b) =>
                 Range(tasks[b].disconnected)
                     \cap Range(active_connections') = {}
       /\ \A h \in Sockets :
             (SnapshotStep(h) /\ ~sockets[h].open) =>
                 h \notin Range(active_connections')
       /\ \A h \in Sockets :
             (sockets[h].pc # "new" /\ h \notin Range(active_connections)) =>
                 h \notin Range(active_connections')
       /\ \A b \in Broadcasts :
             (tasks'[b].pc = "sending" /\ tasks'[b].i # tasks[b].i) =>
                 tasks'[b].target \in Range(active_connections)]_vars

\* a broadcast has ended, a websocket whose client is gone is not
\* registered any more, and a later broadcast has sent to another
\* connection and not to it
C23_Witness ==
    \E h \in Sockets : \E a, b \in Broadcasts :
        /\ a < b
        /\ tasks[a].pc = "done"
        /\ sockets[h].pc = "listening"
        /\ ~sockets[h].open
        /\ h \notin Range(active_connections)
        /\ tasks[b].pc = "sending"
        /\ tasks[b].sent # << >>
        /\ h \notin Range(tasks[b].sent)
        /\ tasks[b].pending = {}

(* ----------------------------------------------------------------------- *)
\* C24: when a broadcast ends, whatever was removed while it ran, the task
\* ended without an exception and it has sent once to every connection
\* that was registered when it started and still is
C24_RemovalSafe ==
    [][\A b \in Broadcasts :
          Completes(b) =>
              /\ tasks'[b].error = ""
              /\ NoDuplicates(tasks[b].sent)
              /\ PendingOf(b) \cap Range(active_connections') = {}]_vars

(* ----------------------------------------------------------------------- *)
\* C26: the websocket is registered when the send of its initial status
\* has returned, whether the send raised or not
C26_SnapshotFailureNotFatal ==
    [][\A h \in Sockets :
          SnapshotStep(h) => h \in Range(active_connections')]_vars

(* ----------------------------------------------------------------------- *)
\* C25: a disconnect of a websocket that is not in the list leaves the
\* list as it is, no disconnect raises, and a second disconnect of the
\* same websocket right after the first leaves the list the first left
C25_DisconnectIdempotent ==
    \A k \in 1..Len(req[1].calls) :
        LET e == req[1].calls[k]
        IN  e.call = "disconnect" =>
                /\ e.raised = ""
                /\ e.websocket \notin Range(e.before) => e.after = e.before
                /\ e.websocket \notin Range(e.after)
                /\ \A y \in Range(e.before) :
                      y # e.websocket => y \in Range(e.after)
                /\ (/\ k > 1
                    /\ req[1].calls[k - 1].call = "disconnect"
                    /\ req[1].calls[k - 1].websocket = e.websocket) =>
                       e.after = req[1].calls[k - 1].after

\* a websocket was connected after another, disconnected, and
\* disconnected again
C25_Witness ==
    /\ Len(req[1].calls) = 4
    /\ req[1].calls[2].call = "connect"
    /\ req[1].calls[3].call = "disconnect"
    /\ req[1].calls[3].websocket = req[1].calls[2].websocket
    /\ req[1].calls[3].before # req[1].calls[3].after
    /\ req[1].calls[4].call = "disconnect"
    /\ req[1].calls[4].websocket = req[1].calls[2].websocket
    /\ active_connections # << >>

(* ----------------------------------------------------------------------- *)
\* what the method of the request served last returns when no event loop
\* runs and no broadcast can be scheduled, its save_state ending as it did
WithoutLoop(r, f, now) ==
    LET io_ok == \A k \in 1..Len(r.calls) :
                     r.calls[k].call = "save_state" => ~r.calls[k].raised
    IN  IF r.op = "make_coffee"
        THEN make_coffee(r.pre, f, r.coffee_type, now, FALSE, io_ok)
        ELSE fill_water(r.pre, f, r.amount, now, FALSE, io_ok)

\* C27: the result of a make_coffee or fill served while the hub runs, the
\* state of its service and the file are those of the same call without an
\* event loop, whatever connections are registered; and no step of the hub
\* (connections coming and going, sends returning or raising) changes the
\* result, the state or the file
C27_NotificationFree ==
    [][IF req' # req
       THEN LET r == req'[1]
                out == WithoutLoop(r, file, Now)
            IN  /\ r.result = out.result
                /\ r.post = out.state
                /\ state'[1] = out.state
                /\ file' = out.file
       ELSE state' = state /\ file' = file]_vars

\* a make_coffee returned and was saved; its broadcast has sent to two
\* connections, and one send raised
C27_Witness ==
    \E b \in Broadcasts :
        /\ req[1].op = "make_coffee"
        /\ req[1].result = Success
        /\ file = <<Serialize(req[1].post)>>
        /\ tasks[b].pc = "sending"
        /\ tasks[b].message.type = "status_update"
        /\ Len(tasks[b].sent) = 2
        /\ Len(tasks[b].disconnected) = 1


(* ----------------------------------------------------------------------- *)
\* the fill and dispense calls made on the container so far
MutationCalls ==
    {k \in 1..Len(req[1].calls) : req[1].calls[k].call \in {"fill", "dispense"}}

\* C31: every mutation of a Container keeps 0 <= current_amount <= capacity:
\* for every amount, positive, zero or negative, a fill or dispense call on
\* a container within its bounds either fails and leaves the level as it
\* was, or ends with the level within the bounds.
C31_MutationKeepsBounds ==
    \A k \in MutationCalls :
        LET call == req[1].calls[k]
        IN  WithinBounds(call.before) =>
                \/ call.raised # "" /\ call.after = call.before
                \/ call.raised = "" /\ WithinBounds(call.after)

(* ----------------------------------------------------------------------- *)
\* C32: every MachineState the service starts from satisfies the
\* constraints of the data model: whatever the file holds, the state that
\* load_state returns has 0 <= current_amount <= capacity in both
\* containers and total_coffees_made >= 0.
C32_LoadedStateValid ==
    \A k \in LoadCalls :
        LET load == req[1].calls[k]
        IN  load.raised = "" =>
                /\ WithinBounds(load.returned.water_container)
                /\ WithinBounds(load.returned.coffee_container)
                /\ load.returned.total_coffees_made >= 0

\* the same for the records whose values are all there and within the
\* container bounds, the counter left aside
LoadedLevelsValid ==
    \A k \in LoadCalls :
        LET load == req[1].calls[k]
        IN  (load.raised = "" /\ IsValidRecord(load.content)) =>
                /\ WithinBounds(load.returned.water_container)
                /\ WithinBounds(load.returned.coffee_container)

(* ----------------------------------------------------------------------- *)
\* the step that ends the HTTP request of client c
Answered(c) ==
    req[c].pc # "done" /\ req'[c].pc = "done" /\ req[c].route # "direct"

\* C33: a fill request that arrives over HTTP with amount <= 0 is refused
\* by the request validation (422) before a service method is called: the
\* MachineState of every service is left as it was, nothing is saved and
\* no task is created; overflow and insufficient-resource failures are
\* answered with 409.
C33_InvalidFillIs422 ==
    [][\A c \in Clients :
          Answered(c) =>
              /\ (req[c].op \in {"fill_water", "fill_coffee"}
                  /\ req[c].amount <= 0) =>
                     /\ req'[c].result = RequestValidationError
                     /\ Response(req'[c].result).status_code = 422
                     /\ req'[c].calls = << >>
                     /\ UNCHANGED <<state, file, tasks>>
              /\ req'[c].result.kind \in {"ContainerOverflowException",
                                          "InsufficientResourcesException"} =>
                     Response(req'[c].result).status_code = 409]_vars

\* over HTTP a fill with amount 0 was answered with 422 and another
\* request was refused for lack of resources
C33_Witness ==
    \E c, d \in Clients :
        /\ req[c].pc = "done" /\ req[c].route # "direct"
        /\ req[c].op = "fill_water" /\ req[c].amount <= 0
        /\ req[c].result = RequestValidationError
        /\ req[d].pc = "done" /\ req[d].route # "direct"
        /\ Response(req[d].result).status_code = 409

(* ----------------------------------------------------------------------- *)
\* the levels and the counter of a state
Account(st) ==
    [water |-> st.water_container.current_amount,
     coffee |-> st.coffee_container.current_amount,
     total |-> st.total_coffees_made]

\* what the operation of client c adds to the account when it counts as
\* applied: the amount of a fill, minus the recipe and one more coffee for
\* a brew
Entry(c, applied) ==
    IF ~applied THEN [water |-> 0, coffee |-> 0, total |-> 0]
    ELSE CASE req[c].op = "make_coffee" ->
                  [water |-> 0 - RECIPES[req[c].coffee_type].water,
                   coffee |-> 0 - RECIPES[req[c].coffee_type].coffee,
                   total |-> 1]
           [] req[c].op = "fill_water" ->
                  [water |-> req[c].amount, coffee |-> 0, total |-> 0]
           [] req[c].op = "fill_coffee" ->
                  [water |-> 0, coffee |-> req[c].amount, total |-> 0]
           [] OTHER -> [water |-> 0, coffee |-> 0, total |-> 0]

\* the operation of client c left the account of its service at what it
\* found plus its entry
Booked(c, applied) ==
    Account(req[c].post) =
        [water |-> Account(req[c].pre).water + Entry(c, applied).water,
         coffee |-> Account(req[c].pre).coffee + Entry(c, applied).coffee,
         total |-> Account(req[c].pre).total + Entry(c, applied).total]

\* d was served right after c
Follows(d, c) == Served(c) /\ Served(d) /\ req[d].seq = req[c].seq + 1

\* C34: resource accounting is exact: since the last reset (or the load)
\* every operation leaves each level at what it found plus the amount of
\* its fill or minus the recipe of its brew when it succeeded, and at what
\* it found when it did not, total_coffees_made likewise with one more
\* coffee per successful brew; and every operation finds the account as
\* the operation served before it left it. The sums of the claim follow by
\* adding up the operations.
C34_AccountingExact ==
    /\ \A c \in Clients :
          (Served(c) /\ req[c].op # "reset") =>
              Booked(c, req[c].result = Success)
    /\ \A c, d \in Clients :
          Follows(d, c) => Account(req[d].pre) = Account(req[c].post)

\* the same on the routes where one service object serves every call, an
\* operation whose save_state raised counted with the successful ones
AccountingExactOnOneService ==
    /\ \A c \in Clients :
          (Served(c) /\ req[c].op # "reset") =>
              Booked(c, req[c].result \in {Success, IOError})
    /\ \A c, d \in Clients :
          (Follows(d, c) /\ req[c].route # "v1") =>
              Account(req[d].pre) = Account(req[c].post)

(* ----------------------------------------------------------------------- *)
\* the levels, the capacities and the counter of a state
Durable(st) ==
    [water_container |-> st.water_container,
     coffee_container |-> st.coffee_container,
     total_coffees_made |-> st.total_coffees_made]

\* what load_state would return now is the state of the service made at
\* startup, the time stamp left aside
NothingToLose ==
    Durable(load_state(file, datetime(clock, 0)).state) = Durable(state[0])

\* a save_state call of this step raised
SaveFailsNow ==
    \E c \in Clients :
        /\ req[c].pc # "done" /\ req'[c].pc = "done"
        /\ \E k \in 1..Len(req'[c].calls) :
              /\ req'[c].calls[k].call = "save_state"
              /\ req'[c].calls[k].raised

\* C35: as long as no save has failed, whenever no operation is in progress
\* the state that load_state would return from the file equals the state
\* of the service in both levels, both capacities and total_coffees_made:
\* it is so after startup, and every step that changes the file or the
\* state and in which no save fails keeps it so (a service method runs to
\* its end within one step). Stated for the service made at startup, on
\* the routes it serves.
C35_RestartLosesNothing ==
    /\ (app # "v1" => NothingToLose)
    /\ [][(/\ app # "v1"
            /\ (file' # file \/ state'[0] # state[0])
            /\ ~SaveFailsNow
            /\ NothingToLose) => NothingToLose']_vars

\* a brew has just succeeded on the service made at startup, the file
\* holds the record of its new state and another operation had been served
\* before
C35_Witness ==
    \E c \in Clients :
        /\ ServedOp(c, "make_coffee") /\ req[c].result = Success
        /\ req[c].route # "v1"
        /\ req[c].seq = clock /\ clock >= 2
        /\ req[c].post = state[0]
        /\ file = <<Serialize(state[0])>>
        /\ NothingToLose

WithMetadata == {h \in Sockets : sockets[h].metadata}

\* C37: after any sequence of connect, disconnect, send_personal_message
\* and broadcast calls, each websocket being connected once, the list
\* active_connections holds no websocket twice and the websockets with an
\* entry in connection_metadata are those of the list.
C37_RegistryConsistent ==
    /\ NoDuplicates(active_connections)
    /\ WithMetadata = Range(active_connections)

\* a broadcast has ended after a websocket whose client had gone was
\* removed, and another websocket is still registered
C37_Witness ==
    \E g, h \in Sockets, b \in Broadcasts :
        /\ tasks[b].pc = "done"
        /\ sockets[g].pc = "listening" /\ ~sockets[g].open
        /\ g \notin Range(active_connections) /\ ~sockets[g].metadata
        /\ sockets[h].pc = "listening" /\ sockets[h].open
        /\ h \in Range(active_connections) /\ sockets[h].metadata

(* ----------------------------------------------------------------------- *)
\* in this step broadcast task a starts its send to websocket h
SendsTo(a, h) ==
    /\ tasks'[a].pc = "sending"
    /\ tasks'[a].target = h
    /\ Len(tasks'[a].sent) = Len(tasks[a].sent) + 1

\* C38: a subscriber that stays connected gets the events in the order in
\* which the operations issued them (coffee_made before the status_update
\* of the same brew, the status_update of an earlier operation before that
\* of a later one), under every interleaving of the broadcast tasks: when
\* a task sends to a websocket whose client is there, no task created
\* after it has sent to that websocket already.
C38_EventsInOrder ==
    [][\A a, b \in Broadcasts, h \in Sockets :
          (a < b /\ SendsTo(a, h) /\ sockets[h].open
           /\ h \in Range(active_connections')) =>
              h \notin Range(tasks[b].sent)]_vars

(* ----------------------------------------------------------------------- *)
\* in this step websocket h is accepted and the sending of its initial
\* status, InitialStatus.data, starts
Connects(h) == sockets[h].pc = "new" /\ sockets'[h].pc = "snapshot"

\* C39: the initial status sent to a websocket that has just connected
\* carries the levels and the counter of the in-memory state in which the
\* operation served last left the machine, also when its save_state raised
\* and with no service registered in app/dependencies.py.
C39_SnapshotIsCurrent ==
    [][\A h \in Sockets :
          (Connects(h) /\ clock > 0) =>
              CarriesState(status_update(InitialStatus.data), state[1])]_vars

\* the same when the save_state of the operation served last did not raise
SnapshotIsCurrentUnlessSaveFailed ==
    [][\A h \in Sockets :
          (Connects(h) /\ clock > 0 /\ ~SaveRaised(1)) =>
              CarriesState(status_update(InitialStatus.data), state[1])]_vars

====
